---- MODULE Spec2Model ----
(***************************************************************************)
(* WebMonner: change detection over the per-domain hash store             *)
(* (crawler.js response handler + fileManager.js saveJSFile) and the      *)
(* Discord notification batch (notifications.js DiscordNotifier).         *)
(*                                                                         *)
(* Strings are sequences of character codes, so that file-name encoding   *)
(* and the summary signature are computed as the code computes them.      *)
(* File contents are sequences of line tokens (0 is a blank line), i.e.   *)
(* the result of buffer.toString().split('\n').                           *)
(***************************************************************************)
EXTENDS Integers, Sequences, FiniteSets, TLC

VARIABLES
    enabled,              \* DiscordNotifier.enabled (= !!webhookUrl)
    batchedChanges,       \* DiscordNotifier.batchedChanges
    lastSummarySignature, \* signature of the last summary answered with response.ok
    lastSummaryTime,      \* currentTime of that flush
    rateLimitReset,       \* rate-limit deadline (ms)
    now,                  \* Date.now() (ms)
    pendingNotifications, \* DiscordNotifier.pendingNotifications
    flight,               \* the sendBatchedSummary call suspended in `await fetch`
    lastFlush,            \* what the most recent flush attempt found and did
    delivered,            \* content and flush time of the last summary answered ok
    hashFile,        \* data/<domain>/hashes.json: [state, map]
    rawFiles,        \* data/<domain>/original/<fileName>.js
    beautifiedFiles, \* data/<domain>/beautified/<fileName>.js
    processedUrls,   \* per-page Set of response urls already seen
    inflight,        \* handlers suspended in `await page.evaluate(fetch)`
    pageOpen,        \* a page of the for-loop is open
    pagesDone,       \* number of target urls already opened
    results,         \* runCrawler's results counters
    lastResult,      \* outcome of the most recent classification
    lastObs,         \* url -> bytes most recently observed for it
    classified,      \* url -> hash of its most recent new/changed classification
    faultsInjected,  \* fs faults, crashes and store corruptions so far
    erred,           \* some classification ended in the fileError catch or a crash
    livePc,          \* position of cli.js in live mode ("api": no live loop)
    scans,           \* runCrawler calls started
    sendFlight,      \* the sendNotification call suspended in `await fetch`
    toSend,          \* processQueuedNotifications: notificationsToSend still to do
    lastSend,        \* how the most recent sendNotification call ended
    raised,          \* a notifier call threw to its caller
    variables,       \* EndpointExtractor.variables (name -> resolved string)
    probe,           \* a content that is extracted more than once
    probeFirst,      \* what the first extraction of `probe` returned
    lastExtract,     \* the most recent extractEndpoints call
    allEndpointsFile,      \* data/<domain>/endpoints/all-endpoints.json
    maxEndpointsPerDomain, \* --max-endpoints
    saves,                 \* saveEndpoints calls so far
    everSaved,             \* url -> highest confidenceOrder ever passed to saveEndpoints
    lastSave,              \* what the most recent saveEndpoints call did
    fingerprints,    \* analyzeFileRelationships: the fingerprints, in key order
    simPc,           \* position in analyzeFileRelationships
    simI,            \* index i of the outer loop (1-based)
    simJ,            \* index j of the inner loop
    processed,       \* the `processed` Set
    cluster,         \* the cluster being built
    relationships,   \* [clusters, singletons]
    lastCompare,     \* the most recent calculateSimilarity call
    callArgument,    \* the argument of a function called at its interface
    callResult       \* what that call returned

notifyVars == <<enabled, batchedChanges, lastSummarySignature, lastSummaryTime,
                rateLimitReset, now, pendingNotifications, flight, lastFlush, delivered>>

crawlVars == <<hashFile, rawFiles, beautifiedFiles, processedUrls, inflight,
               pageOpen, pagesDone, results, lastResult, lastObs, classified,
               erred, faultsInjected>>

liveVars == <<livePc, scans, sendFlight, toSend, lastSend, raised>>

extractVars == <<variables, probe, probeFirst, lastExtract>>

storeVars == <<allEndpointsFile, maxEndpointsPerDomain, saves, everSaved, lastSave>>

simVars == <<fingerprints, simPc, simI, simJ, processed, cluster, relationships, lastCompare>>

callVars == <<callArgument, callResult>>

libVars == <<extractVars, storeVars, simVars, callVars>>

vars == <<notifyVars, crawlVars, liveVars, libVars>>

----------------------------------------------------------------------------
(* Bounds *)

MaxPages == 2
MaxFaults == 1
MaxBatch == 2
TickMs == 150000
MaxTime == 300000
MaxScans == 2
MaxStmts == 2
MaxCap == 2
MaxSaves == 2
MaxFiles == 3
MaxChars == 4
MaxParts == 3
MaxUrls == 3

----------------------------------------------------------------------------
(* Program constants *)

\* saveJSFile: options.maxLines default; cli.js: parseInt(opts.maxLines) || 10
maxLines == 10

----------------------------------------------------------------------------
(* Generic sequence helpers *)

\* variant: the slice is not applied
Take_all(s, n) == s

\* s.slice(0, n), n >= 0
Take(s, n) == IF Len(s) <= n THEN s ELSE SubSeq(s, 1, n)

RECURSIVE Flatten(_)
Flatten(ss) == IF ss = <<>> THEN <<>> ELSE Head(ss) \o Flatten(Tail(ss))

RECURSIVE ReplaceAll(_, _, _)
ReplaceAll(s, from, to) ==
    IF s = <<>> THEN <<>>
    ELSE <<IF Head(s) = from THEN to ELSE Head(s)>> \o ReplaceAll(Tail(s), from, to)

RECURSIVE NonBlank(_)
NonBlank(ls) ==
    IF ls = <<>> THEN <<>>
    ELSE (IF Head(ls) = 0 THEN <<>> ELSE <<Head(ls)>>) \o NonBlank(Tail(ls))

----------------------------------------------------------------------------
(* Inputs: response urls (character codes) and payloads (line tokens) *)

\* "/a", "b": the parts of two response urls that follow their common origin
URLs == { <<47, 97>>, <<98>> }

\* a one-line payload and a twelve-line payload with blank lines
Contents == { <<1>>, <<1, 2, 0, 3, 4, 5, 6, 0, 7, 8, 9, 10>> }

NoFile == <<-1>>

NoHash == <<-1>>

NoPreview == <<-1>>

----------------------------------------------------------------------------
(* crypto.createHash('sha256').update(buffer).digest('hex'): collision-free *)
(* on the payloads considered; a digest is never the empty string.         *)

Hash(b) == <<256>> \o b

(* js-beautify: every non-blank line is re-indented, blank lines are kept *)
Beautify(b) == [i \in 1..Len(b) |-> IF b[i] = 0 THEN 0 ELSE b[i] + 100]

----------------------------------------------------------------------------
(* fileName = encodeURIComponent(url).replace(/%/g, '_') *)

encodeURIComponent(s) ==
    LET \* A-Z a-z 0-9 - _ . ! ~ * ' ( )
        Unreserved == (48..57) \cup (65..90) \cup (97..122)
                          \cup {45, 95, 46, 33, 126, 42, 39, 40, 41}
        HexDigit(n) == IF n < 10 THEN 48 + n ELSE 55 + n
        EncodeChar(c) == IF c \in Unreserved THEN <<c>>
                         ELSE <<37, HexDigit(c \div 16), HexDigit(c % 16)>>
    IN  Flatten([i \in 1..Len(s) |-> EncodeChar(s[i])])

FileName(url) == ReplaceAll(encodeURIComponent(url), 37, 95)

\* decodeURIComponent: every %XX sequence is a byte of a UTF-8 sequence; a
\* malformed sequence is a URIError. The value is the sequence of code points.
decodeURIComponent(s) ==
    LET HexValue(c) == IF c \in 48..57 THEN c - 48
                       ELSE IF c \in 65..70 THEN c - 55
                       ELSE IF c \in 97..102 THEN c - 87
                       ELSE -1
        ByteAt(i) == IF i + 2 <= Len(s) /\ s[i] = 37 /\ HexValue(s[i + 1]) >= 0
                        /\ HexValue(s[i + 2]) >= 0
                     THEN 16 * HexValue(s[i + 1]) + HexValue(s[i + 2])
                     ELSE -1
        \* continuation bytes that follow the lead byte b
        Following(b) == IF b \in 0..127 THEN 0
                        ELSE IF b \in 194..223 THEN 1
                        ELSE IF b \in 224..239 THEN 2
                        ELSE IF b \in 240..244 THEN 3
                        ELSE -1
        \* the range of the first continuation byte
        Second(b) == IF b = 224 THEN 160..191
                     ELSE IF b = 237 THEN 128..159
                     ELSE IF b = 240 THEN 144..191
                     ELSE IF b = 244 THEN 128..143
                     ELSE 128..191
        Lead(b) == IF b < 128 THEN b
                   ELSE IF b < 224 THEN b - 192
                   ELSE IF b < 240 THEN b - 224
                   ELSE b - 240
        RECURSIVE CodePoint(_, _, _)
        CodePoint(acc, i, n) ==
            IF n = 0 THEN acc ELSE CodePoint(acc * 64 + (ByteAt(i) - 128), i + 3, n - 1)
        URIError == [error |-> TRUE, value |-> <<>>]
        RECURSIVE Decode(_)
        Decode(i) ==
            IF i > Len(s) THEN [error |-> FALSE, value |-> <<>>]
            ELSE IF s[i] # 37 THEN
                LET rest == Decode(i + 1)
                IN  IF rest.error THEN URIError
                    ELSE [error |-> FALSE, value |-> <<s[i]>> \o rest.value]
            ELSE
                LET b == ByteAt(i)
                    n == Following(b)
                IN  IF b < 0 \/ n < 0 THEN URIError
                    ELSE IF \E k \in 1..n :
                                ByteAt(i + 3 * k) \notin (IF k = 1 THEN Second(b) ELSE 128..191)
                    THEN URIError
                    ELSE LET rest == Decode(i + 3 * (n + 1))
                         IN  IF rest.error THEN URIError
                             ELSE [error |-> FALSE,
                                   value |-> <<CodePoint(Lead(b), i + 3, n)>> \o rest.value]
    IN  Decode(1)

\* fileName.replace(/\.js$/, ''), then _ -> % and decodeURIComponent; on a
\* URIError the name without extension
decodeFileName(fileName) ==
    LET n == Len(fileName)
        withoutExtension ==
            IF n >= 3 /\ SubSeq(fileName, n - 2, n) = <<46, 106, 115>>
            THEN SubSeq(fileName, 1, n - 3) ELSE fileName
        decoded == decodeURIComponent(ReplaceAll(withoutExtension, 95, 37))
    IN  IF decoded.error THEN withoutExtension ELSE decoded.value

----------------------------------------------------------------------------
(* diffLines of the `diff` package, on line tokens: the common head, the   *)
(* removed lines, the added lines, the common tail (removed before added). *)

RECURSIVE CommonPrefixLen(_, _)
CommonPrefixLen(a, b) ==
    IF a = <<>> \/ b = <<>> \/ Head(a) # Head(b) THEN 0
    ELSE 1 + CommonPrefixLen(Tail(a), Tail(b))

diffLines(old, new) ==
    LET Reverse(s) == [i \in 1..Len(s) |-> s[Len(s) + 1 - i]]
        DiffPart(added, removed, ls) ==
            [added |-> added, removed |-> removed, lines |-> ls, count |-> Len(ls)]
        p    == CommonPrefixLen(old, new)
        oldR == SubSeq(old, p + 1, Len(old))
        newR == SubSeq(new, p + 1, Len(new))
        q    == CommonPrefixLen(Reverse(oldR), Reverse(newR))
        part(a, r, ls) == IF ls = <<>> THEN <<>> ELSE <<DiffPart(a, r, ls)>>
    IN  part(FALSE, FALSE, SubSeq(old, 1, p))
        \o part(FALSE, TRUE, SubSeq(oldR, 1, Len(oldR) - q))
        \o part(TRUE, FALSE, SubSeq(newR, 1, Len(newR) - q))
        \o part(FALSE, FALSE, SubSeq(newR, Len(newR) - q + 1, Len(newR)))

----------------------------------------------------------------------------
(* extractNewCode(diff, maxLines) *)

RECURSIVE ExtractLoop(_, _, _, _, _)
ExtractLoop(diff, limit, addedSections, currentSection, lineNumber) ==
    IF diff = <<>> THEN addedSections
    ELSE
      LET SectionPart(type, ls, cap, at) ==
              [type |-> type, lines |-> Take(ls, cap), lineNumber |-> at,
               truncated |-> Len(ls) > cap]
          part  == Head(diff)
          lines == NonBlank(part.lines)
          next  == lineNumber + part.count
      IN  IF part.added THEN
            ExtractLoop(Tail(diff), limit,
              Append(addedSections,
                     Append(currentSection,
                            SectionPart("added", lines, limit, lineNumber))),
              <<>>, next)
          ELSE IF part.removed THEN
            ExtractLoop(Tail(diff), limit, addedSections,
              Append(currentSection, SectionPart("removed", lines, 5, lineNumber)),
              next)
          ELSE IF Len(lines) > 0 /\ Len(currentSection) > 0 THEN
            ExtractLoop(Tail(diff), limit, addedSections,
              Append(currentSection, SectionPart("context", lines, 2, lineNumber)),
              next)
          ELSE
            ExtractLoop(Tail(diff), limit, addedSections, currentSection, next)

extractNewCode(diff, limit) == ExtractLoop(diff, limit, <<>>, <<>>, 1)

RECURSIVE SumCount(_, _)
SumCount(diff, wantAdded) ==
    IF diff = <<>> THEN 0
    ELSE (IF (wantAdded /\ Head(diff).added) \/ (~wantAdded /\ Head(diff).removed)
          THEN Head(diff).count ELSE 0) + SumCount(Tail(diff), wantAdded)

----------------------------------------------------------------------------
(* saveJSFile(domain, url, buffer, isNewFile, options) *)

NoDiffInfo ==
    [present |-> FALSE, hash |-> NoHash, totalLines |-> 0, addedLines |-> 0,
     removedLines |-> 0, fileSize |-> 0, newCodeSections |-> [raw |-> 0, beautified |-> 0]]

OldVersionsExist(url) ==
    rawFiles[FileName(url)] # NoFile /\ beautifiedFiles[FileName(url)] # NoFile

SaveDiffInfo(url, buffer) ==
    IF OldVersionsExist(url) THEN
      LET rawDiff        == diffLines(rawFiles[FileName(url)], buffer)
          beautifiedDiff == diffLines(beautifiedFiles[FileName(url)], Beautify(buffer))
      IN  [present |-> TRUE, hash |-> Hash(buffer), totalLines |-> Len(buffer),
           addedLines |-> SumCount(rawDiff, TRUE),
           removedLines |-> SumCount(rawDiff, FALSE),
           fileSize |-> Len(buffer),
           newCodeSections |->
             [raw |-> Len(extractNewCode(rawDiff, maxLines)),
              beautified |-> Len(extractNewCode(beautifiedDiff, maxLines))]]
    ELSE NoDiffInfo

SavePreview(url, buffer, isNewFile) ==
    IF ~OldVersionsExist(url) /\ isNewFile THEN Take(buffer, maxLines)
    ELSE NoPreview

----------------------------------------------------------------------------
(* DiscordNotifier: batch *)

EmptyBatch == [newFiles |-> <<>>, changedFiles |-> <<>>, errors |-> <<>>,
               endpointsFound |-> <<>>]

\* "FILE_PROCESSING_ERROR"
FILE_PROCESSING_ERROR ==
    <<70, 73, 76, 69, 95, 80, 82, 79, 67, 69, 83, 83, 73, 78, 71, 95, 69, 82, 82, 79, 82>>

addToBatch(batch, type, data) ==
    CASE type = "new_file"        -> [batch EXCEPT !.newFiles = Append(@, data)]
      [] type = "file_changed"    -> [batch EXCEPT !.changedFiles = Append(@, data)]
      [] type = "error"           -> [batch EXCEPT !.errors = Append(@, data)]
      [] type = "endpoints_found" -> [batch EXCEPT !.endpointsFound = Append(@, data)]
      [] OTHER                    -> batch

----------------------------------------------------------------------------
(* DiscordNotifier: summary signature *)

RECURSIVE Digits(_)
Digits(n) == IF n < 10 THEN <<48 + n>> ELSE Digits(n \div 10) \o <<48 + (n % 10)>>

RECURSIVE Join(_, _)
Join(parts, sep) ==
    IF parts = <<>> THEN <<>>
    ELSE IF Len(parts) = 1 THEN Head(parts)
    ELSE Head(parts) \o <<sep>> \o Join(Tail(parts), sep)

Colon == 58

\* hash = ((hash << 5) - hash) + char; hash = hash & hash, on the 32-bit value
\* kept as its two 16-bit halves <<high, low>>; the for-loop over the
\* characters str[a..b] starting from hash <<high, low>>, evaluated half by half
simpleHash(str) ==
    LET HashStep(h, char) ==
            LET sum == 31 * h[2] + char
            IN  <<(31 * h[1] + (sum \div 65536)) % 65536, sum % 65536>>
        loop[a \in Nat, b \in Nat, high \in Nat, low \in Nat] ==
            IF a > b THEN <<high, low>>
            ELSE IF a = b THEN HashStep(<<high, low>>, str[a])
            ELSE LET left == loop[a, (a + b) \div 2, high, low]
                 IN  loop[(a + b) \div 2 + 1, b, left[1], left[2]]
    IN  loop[1, Len(str), 0, 0]

createSummarySignature(newFiles, changedFiles, errors, endpointsFound) ==
    LET NewFilePart(file) ==
            <<110, 102, Colon>> \o file.url \o <<Colon>> \o Digits(file.lines)
        ChangedFilePart(file) ==
            <<99, 102, Colon>> \o file.url \o <<Colon>> \o Digits(file.addedLines)
                \o <<Colon>> \o Digits(file.removedLines)
        ErrorPart(error) ==
            <<101, 114, 114, Colon>> \o error.url \o <<Colon>> \o error.type
        EndpointPart(ep) ==
            <<101, 112, Colon>> \o ep.url \o <<Colon>> \o Digits(ep.newEndpoints)
                \o <<Colon>> \o Digits(ep.highConfidence)
                \o <<Colon>> \o Digits(ep.mediumConfidence)
                \o <<Colon>> \o Digits(ep.lowConfidence)
        signatureParts ==
            <<(<<110, 101, 119, Colon>> \o Digits(Len(newFiles)))>>
            \o [i \in 1..Len(newFiles) |-> NewFilePart(newFiles[i])]
            \o <<(<<99, 104, 97, 110, 103, 101, 100, Colon>> \o Digits(Len(changedFiles)))>>
            \o [i \in 1..Len(changedFiles) |-> ChangedFilePart(changedFiles[i])]
            \o <<(<<101, 114, 114, 111, 114, 115, Colon>> \o Digits(Len(errors)))>>
            \o [i \in 1..Len(errors) |-> ErrorPart(errors[i])]
            \o <<(<<101, 110, 100, 112, 111, 105, 110, 116, 115, Colon>>
                    \o Digits(Len(endpointsFound)))>>
            \o [i \in 1..Len(endpointsFound) |-> EndpointPart(endpointsFound[i])]
    IN  simpleHash(Join(signatureParts, 124))

----------------------------------------------------------------------------
(* DiscordNotifier: sendBatchedSummary *)

summaryMinInterval == 300000

RECURSIVE SumNewEndpoints(_)
SumNewEndpoints(eps) ==
    IF eps = <<>> THEN 0 ELSE Head(eps).newEndpoints + SumNewEndpoints(Tail(eps))

BatchSize(batch) ==
    Len(batch.newFiles) + Len(batch.changedFiles) + Len(batch.errors)
        + Len(batch.endpointsFound)

\* totalChanges === 0 && errors.length === 0 && totalEndpoints === 0
NothingToSend(batch) ==
    /\ Len(batch.newFiles) + Len(batch.changedFiles) = 0
    /\ Len(batch.errors) = 0
    /\ SumNewEndpoints(batch.endpointsFound) = 0

BatchSignature(batch) ==
    createSummarySignature(batch.newFiles, batch.changedFiles, batch.errors,
                           batch.endpointsFound)

\* variant: the interval is compared in seconds
IsDuplicateSummary_seconds(summarySignature, currentTime) ==
    /\ lastSummarySignature = summarySignature
    /\ (currentTime - lastSummaryTime) < summaryMinInterval \div 1000

IsDuplicateSummary(summarySignature, currentTime) ==
    /\ lastSummarySignature = summarySignature
    /\ (currentTime - lastSummaryTime) < summaryMinInterval

isRateLimited == now < rateLimitReset

\* variant: the error list survives
clearBatch_keepErrors == [EmptyBatch EXCEPT !.errors = batchedChanges.errors]

clearBatch == EmptyBatch

\* response.headers.get('Retry-After') || 60, a header value in seconds
NoHeader == -1

RetryAfter(header) == IF header = NoHeader THEN 60 ELSE header

\* the urls and counts of the items, without sizes
SemanticContent(batch) ==
    [newFiles |-> [i \in 1..Len(batch.newFiles) |->
                     <<batch.newFiles[i].url, batch.newFiles[i].lines>>],
     changedFiles |-> [i \in 1..Len(batch.changedFiles) |->
                     <<batch.changedFiles[i].url, batch.changedFiles[i].addedLines,
                       batch.changedFiles[i].removedLines>>],
     errors |-> [i \in 1..Len(batch.errors) |->
                     <<batch.errors[i].url, batch.errors[i].type>>],
     endpointsFound |-> [i \in 1..Len(batch.endpointsFound) |->
                     <<batch.endpointsFound[i].url, batch.endpointsFound[i].newEndpoints,
                       batch.endpointsFound[i].highConfidence,
                       batch.endpointsFound[i].mediumConfidence,
                       batch.endpointsFound[i].lowConfidence>>]]

\* the steps of sendBatchedSummary inside its try block; a throw at any other
\* step leaves the call
SummaryTry_fetchOutside == {"createBatchedSummaryEmbed", "response"}

SummaryTry == {"createBatchedSummaryEmbed", "fetch", "response"}

Raises(tryBlock, step, outcome) == outcome = "throw" /\ step \notin tryBlock

\* runCrawler resumes after `await discordNotifier.sendBatchedSummary()`
AfterSummary(pc) == IF pc = "summary" THEN "queued" ELSE pc

NoFlight == [active |-> FALSE, sig |-> <<>>, currentTime |-> 0, payload |-> EmptyBatch]

NoFlush == [outcome |-> "none", nonEmpty |-> FALSE, dup |-> FALSE, within |-> FALSE,
            limited |-> FALSE, called |-> FALSE, requeued |-> FALSE, dropped |-> 0,
            retry |-> FALSE]

\* what a flush attempt finds when it starts, and what it leaves in the batch
FlushFinds(outcome, called, after, queue) ==
    [outcome |-> outcome,
     nonEmpty |-> ~NothingToSend(batchedChanges),
     dup |-> delivered.some /\ SemanticContent(batchedChanges) = delivered.content,
     within |-> delivered.some /\ (now - delivered.at) < summaryMinInterval,
     limited |-> isRateLimited,
     called |-> called,
     requeued |-> after # EmptyBatch \/ queue # pendingNotifications,
     dropped |-> 0,
     retry |-> SemanticContent(batchedChanges) = delivered.failed]

NewFileItems ==
    { [url |-> <<65, 97>>, lines |-> 1, fileSize |-> 1],
      [url |-> <<65, 97>>, lines |-> 1, fileSize |-> 2] }

ErrorItems == { [url |-> <<66, 66>>, type |-> FILE_PROCESSING_ERROR] }

\* addToBatch(type, data), called by any task holding the notifier
AddToBatch(type, data) ==
    /\ enabled
    /\ livePc \in {"api", "scan"}
    /\ BatchSize(batchedChanges) < MaxBatch
    /\ batchedChanges' = addToBatch(batchedChanges, type, data)
    /\ lastFlush' = IF flight.active THEN lastFlush ELSE NoFlush
    /\ UNCHANGED libVars
    /\ UNCHANGED <<liveVars, enabled, lastSummarySignature, lastSummaryTime, rateLimitReset, now,
                   pendingNotifications, flight, crawlVars>>
    \* the failed delivery is remembered while the batch can still become its content
    /\ delivered' =
           LET content == SemanticContent(batchedChanges')
               IsPrefix(a, b) == Len(a) <= Len(b) /\ SubSeq(b, 1, Len(a)) = a
           IN  IF \A list \in DOMAIN content : IsPrefix(content[list], delivered.failed[list])
               THEN delivered
               ELSE [delivered EXCEPT !.failed = SemanticContent(EmptyBatch)]

\* sendBatchedSummary: nothing to send
FlushEmpty ==
    /\ enabled
    /\ livePc \in {"api", "summary"}
    /\ ~flight.active
    /\ NothingToSend(batchedChanges)
    /\ batchedChanges' = clearBatch
    /\ livePc' = AfterSummary(livePc)
    /\ UNCHANGED libVars
    /\ UNCHANGED <<scans, sendFlight, toSend, lastSend, raised>>
    /\ UNCHANGED <<enabled, lastSummarySignature, lastSummaryTime, rateLimitReset, now,
                   pendingNotifications, flight, crawlVars>>
    /\ delivered' = [delivered EXCEPT !.failed = SemanticContent(EmptyBatch)]
    /\ lastFlush' = FlushFinds("empty", FALSE, batchedChanges', pendingNotifications')

\* sendBatchedSummary: same signature as the last sent summary, within the interval
FlushSuppressed ==
    /\ enabled
    /\ livePc \in {"api", "summary"}
    /\ ~flight.active
    /\ ~NothingToSend(batchedChanges)
    /\ IsDuplicateSummary(BatchSignature(batchedChanges), now)
    /\ batchedChanges' = clearBatch
    /\ livePc' = AfterSummary(livePc)
    /\ UNCHANGED libVars
    /\ UNCHANGED <<scans, sendFlight, toSend, lastSend, raised>>
    /\ UNCHANGED <<enabled, lastSummarySignature, lastSummaryTime, rateLimitReset, now,
                   pendingNotifications, flight, crawlVars>>
    /\ delivered' = [delivered EXCEPT !.failed = SemanticContent(EmptyBatch)]
    /\ lastFlush' = FlushFinds("suppressed", FALSE, batchedChanges', pendingNotifications')

\* sendBatchedSummary: the embed is built and fetch is called
FlushSend ==
    /\ enabled
    /\ livePc \in {"api", "summary"}
    /\ ~flight.active
    /\ ~NothingToSend(batchedChanges)
    /\ ~IsDuplicateSummary(BatchSignature(batchedChanges), now)
    /\ flight' = [active |-> TRUE, sig |-> BatchSignature(batchedChanges),
                  currentTime |-> now, payload |-> batchedChanges]
    /\ UNCHANGED libVars
    /\ UNCHANGED <<enabled, batchedChanges, lastSummarySignature, lastSummaryTime,
                   rateLimitReset, now, pendingNotifications, crawlVars,
                   liveVars>>
    /\ delivered' = [delivered EXCEPT !.failed = SemanticContent(EmptyBatch)]
    /\ lastFlush' = FlushFinds("sending", TRUE, batchedChanges', pendingNotifications')

\* variant: the summary info is updated whatever the response
RecordsSummary_always(outcome) == TRUE

\* if (response.ok): update last sent summary info
RecordsSummary(outcome) == outcome = "ok"

\* sendBatchedSummary: fetch settles; outcome "ok", "429", "status" or "throw"
FlushResponse(outcome, header) ==
    /\ flight.active
    /\ lastSummarySignature' = IF RecordsSummary(outcome) THEN flight.sig
                               ELSE lastSummarySignature
    /\ lastSummaryTime' = IF RecordsSummary(outcome) THEN flight.currentTime
                          ELSE lastSummaryTime
    /\ delivered' = IF outcome = "ok"
                    THEN [some |-> TRUE, content |-> SemanticContent(flight.payload),
                          at |-> flight.currentTime,
                          failed |-> SemanticContent(EmptyBatch)]
                    ELSE [delivered EXCEPT !.failed = SemanticContent(flight.payload)]
    /\ rateLimitReset' = IF outcome = "429" THEN now + RetryAfter(header) * 1000
                         ELSE rateLimitReset
    /\ batchedChanges' = IF Raises(SummaryTry, "fetch", outcome) THEN batchedChanges
                          ELSE clearBatch
    /\ flight' = NoFlight
    /\ raised' = (raised \/ Raises(SummaryTry, "fetch", outcome))
    /\ livePc' = AfterSummary(livePc)
    /\ UNCHANGED libVars
    /\ UNCHANGED <<scans, sendFlight, toSend, lastSend>>
    /\ UNCHANGED <<enabled, now, pendingNotifications, crawlVars>>
    /\ lastFlush' = [lastFlush EXCEPT
                       !.outcome = outcome,
                       !.requeued = batchedChanges' # EmptyBatch
                                    \/ pendingNotifications' # pendingNotifications,
                       !.dropped = BatchSize(batchedChanges) - BatchSize(flight.payload)
                                   - BatchSize(batchedChanges')]

Tick ==
    /\ now + TickMs <= MaxTime
    /\ now' = now + TickMs
    /\ lastFlush' = IF flight.active THEN lastFlush ELSE NoFlush
    /\ UNCHANGED libVars
    /\ UNCHANGED <<enabled, batchedChanges, lastSummarySignature, lastSummaryTime,
                   rateLimitReset, pendingNotifications, flight, delivered, crawlVars,
                   liveVars>>

----------------------------------------------------------------------------
(* DiscordNotifier: sendNotification and the queue; cli.js: live monitoring *)

NoSendFlight == [active |-> FALSE, type |-> "none"]

\* queueNotification: push, then drop the entries older than one hour
queueNotification(queue, type, time) ==
    SelectSeq(Append(queue, [type |-> type, timestamp |-> time]),
              LAMBDA n : n.timestamp > time - 3600000)

\* shouldSkipNotification: only new_file and file_changed keys are ever marked
\* as sent, and sendNotification batches those types before marking anything
shouldSkipNotification(type, sentRecently) ==
    type \in {"file_changed", "new_file"} /\ sentRecently

\* sendNotification(type, data) up to its first await or its return;
\* waitPc: the caller while the call awaits fetch, donePc: after it returned
SendCall(type, data, waitPc, donePc) ==
    IF type \in {"new_file", "file_changed", "error", "endpoints_found"} THEN
        /\ batchedChanges' = addToBatch(batchedChanges, type, data)
        /\ livePc' = donePc
        /\ UNCHANGED <<pendingNotifications, sendFlight, lastSend>>
    ELSE IF shouldSkipNotification(type, FALSE) THEN
        /\ livePc' = donePc
        /\ lastSend' = [outcome |-> "skipped", type |-> type]
        /\ UNCHANGED <<batchedChanges, pendingNotifications, sendFlight>>
    ELSE IF isRateLimited THEN
        /\ pendingNotifications' = queueNotification(pendingNotifications, type, now)
        /\ livePc' = donePc
        /\ lastSend' = [outcome |-> "queued", type |-> type]
        /\ UNCHANGED <<batchedChanges, sendFlight>>
    ELSE
        /\ sendFlight' = [active |-> TRUE, type |-> type]
        /\ livePc' = waitPc
        /\ UNCHANGED <<batchedChanges, pendingNotifications, lastSend>>

\* cli.js: await discordNotifier.sendNotification('live_monitoring_start', ...)
LiveStart ==
    /\ enabled
    /\ livePc = "start"
    /\ SendCall("live_monitoring_start", <<>>, "startWait", "ready")
    /\ UNCHANGED libVars
    /\ UNCHANGED <<enabled, lastSummarySignature, lastSummaryTime, rateLimitReset, now,
                   flight, lastFlush, delivered, scans, toSend, raised, crawlVars>>

\* sendNotification: fetch settles; outcome "ok", "429", "status" or "throw"
SendResponse(outcome, header) ==
    /\ sendFlight.active
    /\ rateLimitReset' = IF outcome = "429" THEN now + RetryAfter(header) * 1000
                         ELSE rateLimitReset
    /\ pendingNotifications' =
          IF outcome = "429"
          THEN queueNotification(pendingNotifications, sendFlight.type, now)
          ELSE pendingNotifications
    /\ raised' = (raised \/ Raises({"createEmbed", "fetch", "response"}, "fetch", outcome))
    /\ lastSend' = [outcome |-> outcome, type |-> sendFlight.type]
    /\ sendFlight' = NoSendFlight
    /\ livePc' = IF livePc = "startWait" THEN "ready" ELSE "queueSend"
    /\ UNCHANGED libVars
    /\ UNCHANGED <<enabled, batchedChanges, lastSummarySignature, lastSummaryTime, now,
                   flight, lastFlush, delivered, scans, toSend, crawlVars>>

\* cli.js: await runCrawler(config), the initial run and each scheduled scan
LiveRunCrawler ==
    /\ livePc = "ready"
    /\ scans < MaxScans
    /\ scans' = scans + 1
    /\ livePc' = "scan"
    /\ UNCHANGED libVars
    /\ UNCHANGED <<notifyVars, sendFlight, toSend, lastSend, raised, crawlVars>>

\* a handler of the scan reports through sendNotification('error', ...)
LiveScanNotify(data) ==
    /\ enabled
    /\ livePc = "scan"
    /\ BatchSize(batchedChanges) < MaxBatch
    /\ SendCall("error", data, "scan", "scan")
    /\ UNCHANGED libVars
    /\ UNCHANGED <<enabled, lastSummarySignature, lastSummaryTime, rateLimitReset, now,
                   flight, lastFlush, delivered, scans, toSend, raised, crawlVars>>

\* runCrawler reaches `await discordNotifier.sendBatchedSummary()`
LiveScanDone ==
    /\ livePc = "scan"
    /\ livePc' = "summary"
    /\ UNCHANGED libVars
    /\ UNCHANGED <<notifyVars, scans, sendFlight, toSend, lastSend, raised, crawlVars>>

\* runCrawler's catch in live mode: the error is batched, not rethrown, and
\* the summary of this scan is not sent
LiveScanError ==
    /\ enabled
    /\ livePc = "scan"
    /\ batchedChanges' = addToBatch(batchedChanges, "error",
                                  \* "System", "CRAWLER_ERROR"
                                  [url |-> <<83, 121, 115, 116, 101, 109>>,
                                   type |-> <<67, 82, 65, 87, 76, 69, 82, 95, 69, 82, 82, 79, 82>>])
    /\ livePc' = "queued"
    /\ UNCHANGED libVars
    /\ UNCHANGED <<enabled, lastSummarySignature, lastSummaryTime, rateLimitReset, now,
                   pendingNotifications, flight, lastFlush, delivered, scans, sendFlight,
                   toSend, lastSend, raised, crawlVars>>

\* processQueuedNotifications: the guard and the copy of the queue
ProcessQueued ==
    /\ enabled
    /\ livePc = "queued"
    /\ IF pendingNotifications = <<>> \/ isRateLimited
       THEN /\ livePc' = "sleep"
            /\ UNCHANGED <<pendingNotifications, toSend>>
       ELSE /\ toSend' = pendingNotifications
            /\ pendingNotifications' = <<>>
            /\ livePc' = "queueSend"
    /\ UNCHANGED libVars
    /\ UNCHANGED <<enabled, batchedChanges, lastSummarySignature, lastSummaryTime,
                   rateLimitReset, now, flight, lastFlush, delivered, scans, sendFlight,
                   lastSend, raised, crawlVars>>

\* processQueuedNotifications: one turn of the for loop
QueueSendNext ==
    /\ livePc = "queueSend"
    /\ IF toSend = <<>>
       THEN /\ livePc' = "sleep"
            /\ UNCHANGED <<batchedChanges, pendingNotifications, sendFlight, lastSend,
                           toSend>>
       ELSE /\ toSend' = Tail(toSend)
            /\ IF shouldSkipNotification(Head(toSend).type, FALSE)
               THEN UNCHANGED <<batchedChanges, pendingNotifications, sendFlight,
                                lastSend, livePc>>
               ELSE SendCall(Head(toSend).type, <<>>, "queueWait", "queueSend")
    /\ UNCHANGED libVars
    /\ UNCHANGED <<enabled, lastSummarySignature, lastSummaryTime, rateLimitReset, now,
                   flight, lastFlush, delivered, scans, raised, crawlVars>>

\* SleepTimer.start() resolves
LiveSleep ==
    /\ livePc = "sleep"
    /\ livePc' = "ready"
    /\ UNCHANGED libVars
    /\ UNCHANGED <<notifyVars, scans, sendFlight, toSend, lastSend, raised, crawlVars>>

----------------------------------------------------------------------------
(* runCrawler: page loop and the page.on('response') handler *)

EmptyMap == [u \in URLs |-> NoHash]

ZeroResults == [newFiles |-> 0, changedFiles |-> 0, errors |-> 0, errorDetails |-> <<>>]

\* hashes = {} unless hashes.json exists and parses
LoadHashes == IF hashFile.state = "ok" THEN hashFile.map ELSE EmptyMap

\* variants of the write: the entry is not set; only the own entry is written
UpdatedHashes_keepOld(hashes, url, hash) == hashes

UpdatedHashes_onlyOwn(hashes, url, hash) == [u \in URLs |-> IF u = url THEN hash ELSE NoHash]

\* hashes[respUrl] = result.hash; ... writeFileSync(hashPath, JSON.stringify(hashes))
UpdatedHashes(hashes, url, hash) == [hashes EXCEPT ![url] = hash]

\* variant: the hash comparison is forgotten
HasChanged_noCompare(prevHash, hash) == prevHash = NoHash

HasChanged(prevHash, hash) == prevHash = NoHash \/ prevHash # hash

\* where an exception (or the end of the process) cuts the changed branch short
Faults == {"beforeRaw", "afterRaw", "afterBeautified"}

\* the ChangeResult of classifying (url, buffer) in the current state
Classification(url, buffer, fault) ==
    LET prevHash == LoadHashes[url]
        isNew    == prevHash = NoHash
        changed  == HasChanged(prevHash, Hash(buffer))
        returned == changed /\ fault \in {"none", "afterBeautified"}
    IN  [valid |-> TRUE, url |-> url, isNew |-> isNew, changed |-> changed,
         hash |-> Hash(buffer),
         diffInfo |-> IF returned
                      THEN SaveDiffInfo(url, buffer) ELSE NoDiffInfo,
         preview |-> IF changed /\ fault # "beforeRaw"
                     THEN SavePreview(url, buffer, isNew) ELSE NoPreview,
         first |-> lastObs[url] = NoFile,
         sameBytes |-> lastObs[url] = buffer,
         priorRecord |-> hashFile.state = "ok" /\ hashFile.map[url] # NoHash,
         unreadable |-> hashFile.state = "corrupt",
         raised |-> fault # "none",
         others |-> inflight \ {url}]

\* batch appends of the handler (only with an enabled notifier)
HandlerBatch(batch, r, buffer, fault) ==
    LET returned == r.changed /\ fault \in {"none", "afterBeautified"}
        b1 == IF returned /\ r.isNew
              THEN addToBatch(batch, "new_file",
                     [url |-> r.url, lines |-> Len(buffer), fileSize |-> Len(buffer)])
              ELSE batch
        b2 == IF returned /\ r.diffInfo.present /\ ~r.isNew
              THEN addToBatch(b1, "file_changed",
                     [url |-> r.url, addedLines |-> r.diffInfo.addedLines,
                      removedLines |-> r.diffInfo.removedLines,
                      totalLines |-> r.diffInfo.totalLines])
              ELSE b1
    IN  IF fault # "none"
        THEN addToBatch(b2, "error", [url |-> r.url, type |-> FILE_PROCESSING_ERROR])
        ELSE b2

\* variant: hashes.json is written before saveJSFile stores the content
DiskAfter_hashFirst(url, buffer, r, fault) ==
    /\ rawFiles' = IF r.changed /\ fault # "beforeRaw"
                   THEN [rawFiles EXCEPT ![FileName(url)] = buffer] ELSE rawFiles
    /\ beautifiedFiles' = IF r.changed /\ fault \in {"none", "afterBeautified"}
                          THEN [beautifiedFiles EXCEPT ![FileName(url)] = Beautify(buffer)]
                          ELSE beautifiedFiles
    /\ hashFile' = IF r.changed
                   THEN [state |-> "ok", map |-> UpdatedHashes(LoadHashes, url, r.hash)]
                   ELSE hashFile

\* variant: an unreadable hashes.json is left as it is
DiskAfter_keepUnreadable(url, buffer, r, fault) ==
    /\ rawFiles' = IF r.changed /\ fault # "beforeRaw"
                   THEN [rawFiles EXCEPT ![FileName(url)] = buffer] ELSE rawFiles
    /\ beautifiedFiles' = IF r.changed /\ fault \in {"none", "afterBeautified"}
                          THEN [beautifiedFiles EXCEPT ![FileName(url)] = Beautify(buffer)]
                          ELSE beautifiedFiles
    /\ hashFile' = IF r.changed /\ fault = "none" /\ hashFile.state # "corrupt"
                   THEN [state |-> "ok", map |-> UpdatedHashes(LoadHashes, url, r.hash)]
                   ELSE hashFile

\* the files on disk after the changed branch ran up to `fault`
DiskAfter(url, buffer, r, fault) ==
    /\ rawFiles' = IF r.changed /\ fault # "beforeRaw"
                   THEN [rawFiles EXCEPT ![FileName(url)] = buffer] ELSE rawFiles
    /\ beautifiedFiles' = IF r.changed /\ fault \in {"none", "afterBeautified"}
                          THEN [beautifiedFiles EXCEPT ![FileName(url)] = Beautify(buffer)]
                          ELSE beautifiedFiles
    /\ hashFile' = IF r.changed /\ fault = "none"
                   THEN [state |-> "ok", map |-> UpdatedHashes(LoadHashes, url, r.hash)]
                   ELSE hashFile

\* the synchronous part of the handler, from the hash to the hashes.json write
ProcessFile(url, buffer, fault) ==
    LET r == Classification(url, buffer, fault)
    IN  /\ fault # "none" => r.changed
        /\ DiskAfter(url, buffer, r, fault)
        /\ lastResult' = r
        /\ lastObs' = [lastObs EXCEPT ![url] = buffer]
        /\ classified' = IF r.changed /\ fault \in {"none", "afterBeautified"}
                         THEN [classified EXCEPT ![url] = r.hash] ELSE classified
        /\ erred' = (erred \/ fault # "none")
        /\ results' =
            LET returned == r.changed /\ fault \in {"none", "afterBeautified"}
            IN  [results EXCEPT
                  !.newFiles = IF returned /\ r.isNew THEN @ + 1 ELSE @,
                  !.changedFiles = IF returned /\ ~r.isNew THEN @ + 1 ELSE @,
                  !.errors = IF fault # "none" THEN @ + 1 ELSE @,
                  !.errorDetails =
                      IF fault # "none"
                      THEN Append(@, [url |-> url, type |-> "FILE_ERROR", message |-> fault])
                      ELSE @]
        /\ batchedChanges' = IF enabled THEN HandlerBatch(batchedChanges, r, buffer, fault)
                             ELSE batchedChanges

OpenPage ==
    /\ ~pageOpen
    /\ pagesDone < MaxPages
    /\ pageOpen' = TRUE
    /\ pagesDone' = pagesDone + 1
    /\ processedUrls' = {}
    /\ inflight' = {}
    /\ UNCHANGED libVars
    /\ UNCHANGED <<liveVars, hashFile, rawFiles, beautifiedFiles, results, lastResult, lastObs,
                   classified, erred, faultsInjected, notifyVars>>

\* page.close(): every pending page.evaluate rejects and its handler returns
ClosePage ==
    /\ pageOpen
    /\ pageOpen' = FALSE
    /\ inflight' = {}
    /\ UNCHANGED libVars
    /\ UNCHANGED <<liveVars, hashFile, rawFiles, beautifiedFiles, processedUrls, pagesDone, results,
                   lastResult, lastObs, classified, erred, faultsInjected, notifyVars>>

ResponseFiltered(url) ==
    /\ pageOpen
    /\ url \notin processedUrls
    /\ processedUrls' = processedUrls \cup {url}
    /\ UNCHANGED libVars
    /\ UNCHANGED <<liveVars, hashFile, rawFiles, beautifiedFiles, inflight, results, pageOpen, pagesDone,
                   lastResult, lastObs, classified, erred, faultsInjected, notifyVars>>

ResponseBadStatus(url) ==
    /\ pageOpen
    /\ url \notin processedUrls
    /\ processedUrls' = processedUrls \cup {url}
    /\ UNCHANGED libVars
    /\ UNCHANGED <<liveVars, hashFile, rawFiles, beautifiedFiles, inflight, results, pageOpen, pagesDone,
                   lastResult, lastObs, classified, erred, faultsInjected, notifyVars>>

ResponseAccepted(url) ==
    /\ pageOpen
    /\ url \notin processedUrls
    /\ processedUrls' = processedUrls \cup {url}
    /\ inflight' = inflight \cup {url}
    /\ UNCHANGED libVars
    /\ UNCHANGED <<liveVars, hashFile, rawFiles, beautifiedFiles, results, pageOpen, pagesDone,
                   lastResult, lastObs, classified, erred, faultsInjected, notifyVars>>

FetchFail(url) ==
    /\ url \in inflight
    /\ inflight' = inflight \ {url}
    /\ UNCHANGED libVars
    /\ UNCHANGED <<liveVars, hashFile, rawFiles, beautifiedFiles, processedUrls, pageOpen, pagesDone,
                   results, lastResult, lastObs, classified, erred, faultsInjected, notifyVars>>

FetchDone(url, buffer) ==
    /\ url \in inflight
    /\ inflight' = inflight \ {url}
    /\ ProcessFile(url, buffer, "none")
    /\ UNCHANGED libVars
    /\ UNCHANGED <<liveVars, faultsInjected, processedUrls, pageOpen, pagesDone, enabled,
                   lastSummarySignature, lastSummaryTime, rateLimitReset, now,
                   pendingNotifications, flight, lastFlush, delivered>>

\* an fs call of the changed branch throws: the fileError catch records it
FetchDoneFault(url, buffer, fault) ==
    /\ url \in inflight
    /\ fault \in Faults
    /\ faultsInjected < MaxFaults
    /\ faultsInjected' = faultsInjected + 1
    /\ inflight' = inflight \ {url}
    /\ ProcessFile(url, buffer, fault)
    /\ UNCHANGED libVars
    /\ UNCHANGED <<liveVars, processedUrls, pageOpen, pagesDone, enabled,
                   lastSummarySignature, lastSummaryTime, rateLimitReset, now,
                   pendingNotifications, flight, lastFlush, delivered>>

\* the process ends inside the changed branch; the next run starts with fresh memory
Crash(url, buffer, fault) ==
    LET r == Classification(url, buffer, fault)
    IN  /\ url \in inflight
        /\ fault \in Faults
        /\ faultsInjected < MaxFaults
        /\ faultsInjected' = faultsInjected + 1
        /\ r.changed
        /\ DiskAfter(url, buffer, r, fault)
        /\ lastResult' = r
        /\ lastObs' = [lastObs EXCEPT ![url] = buffer]
        /\ erred' = TRUE
        /\ inflight' = {}
        /\ processedUrls' = {}
        /\ pageOpen' = FALSE
        /\ results' = ZeroResults
        /\ batchedChanges' = EmptyBatch
        /\ UNCHANGED <<libVars, liveVars, pagesDone, classified, enabled, lastSummarySignature,
                       lastSummaryTime, rateLimitReset, now, pendingNotifications,
                       flight, lastFlush, delivered>>

\* hashes.json is damaged from outside (truncated write, manual edit)
CorruptStore ==
    /\ hashFile.state # "corrupt"
    /\ faultsInjected < MaxFaults
    /\ faultsInjected' = faultsInjected + 1
    /\ hashFile' = [state |-> "corrupt", map |-> EmptyMap]
    /\ UNCHANGED libVars
    /\ UNCHANGED <<liveVars, rawFiles, beautifiedFiles, processedUrls, inflight, pageOpen, pagesDone,
                   results, lastResult, lastObs, classified, erred, notifyVars>>

----------------------------------------------------------------------------
(* EndpointExtractor: extractEndpoints *)

\* string helpers on character codes
StartsWith(s, p) == Len(s) >= Len(p) /\ SubSeq(s, 1, Len(p)) = p

Includes(s, sub) ==
    \E i \in 1..(Len(s) - Len(sub) + 1) : SubSeq(s, i, i + Len(sub) - 1) = sub

IsDigit(c) == c \in 48..57

\* string literals of the contents considered: "/api/a" and "users"
ApiA == <<47, 97, 112, 105, 47, 97>>

Users == <<117, 115, 101, 114, 115>>

\* the value of an identifier that was never assigned
NoValue == <<>>

\* this.variables, for the identifier `x`
EmptyVariables == [n \in {"x"} |-> NoValue]

\* Contents are lines laid out more than 100 characters apart, so that the
\* context windows of a match cover its own line only:
\*   fetch("/api/a")
\*   z.get("users")
\*   const x = "users"
\*   fetch(x)
\*   const x = '/api/' + 'users'; fetch(x)
\*   z["f"]()
\*   }
\* The last one is a syntax error: esprima.parseScript throws on such a content.
ExtractContents(kinds) ==
    LET Statements ==
            { [kind |-> "call", callee |-> "fetch", arg |-> ApiA, plus |-> NoValue],
              [kind |-> "call", callee |-> "get", arg |-> Users, plus |-> NoValue],
              [kind |-> "decl", callee |-> "", arg |-> Users, plus |-> NoValue],
              [kind |-> "callVar", callee |-> "fetch", arg |-> NoValue, plus |-> NoValue],
              [kind |-> "concatFetch", callee |-> "fetch",
               arg |-> <<47, 97, 112, 105, 47>>, plus |-> Users],
              [kind |-> "computed", callee |-> "", arg |-> NoValue, plus |-> NoValue],
              [kind |-> "bad", callee |-> "", arg |-> NoValue, plus |-> NoValue] }
    IN  UNION { [1..n -> { s \in Statements : s.kind \in kinds }] : n \in 0..MaxStmts }

HasLiteral(s) == s.kind \in {"call", "decl"}

\* esprima.parseScript(content, {tolerant: true}) returns an AST
Parses(content) == \A i \in 1..Len(content) : content[i].kind # "bad"

\* the words of the context scoring found in extractContext(content, index)
ContextWords(s) == IF s.callee = "fetch" THEN {"fetch"} ELSE {}

\* detectHttpMethod(content, index), detectHttpMethodFromLine(line)
detectHttpMethod(s) == IF s.callee = "get" THEN "GET" ELSE "UNKNOWN"

\* cleanEndpoint(endpoint)
cleanEndpoint(endpoint) ==
    LET IsQuote(c) == c \in {39, 34, 96}
        IsSpace(c) == c \in {9, 10, 11, 12, 13, 32}
        \* .replace(/^['"`]|['"`]$/g, '')
        Unquoted(s) ==
            LET front == IF s # <<>> /\ IsQuote(s[1]) THEN Tail(s) ELSE s
            IN  IF front # <<>> /\ IsQuote(front[Len(front)])
                THEN SubSeq(front, 1, Len(front) - 1)
                ELSE front
        \* .trim()
        Trimmed(s) ==
            LET solid == { i \in 1..Len(s) : ~IsSpace(s[i]) }
            IN  IF solid = {} THEN <<>>
                ELSE SubSeq(s, CHOOSE i \in solid : \A k \in solid : i <= k,
                               CHOOSE i \in solid : \A k \in solid : k <= i)
        \* .replace(/[,;)}\]]+$/, '')
        Stripped(s) ==
            LET kept == { i \in 1..Len(s) : s[i] \notin {44, 59, 41, 125, 93} }
            IN  IF kept = {} THEN <<>>
                ELSE SubSeq(s, 1, CHOOSE i \in kept : \A k \in kept : k <= i)
    IN  Stripped(Trimmed(Unquoted(endpoint)))

\* isValidEndpoint(endpoint): no invalidPatterns entry matches and some
\* validPatterns entry does
isValidEndpoint(endpoint) ==
    LET n == Len(endpoint)
        IsLetter(c) == c \in (65..90) \cup (97..122)
        IsAlnum(c) == IsDigit(c) \/ IsLetter(c)
        \* [a-zA-Z0-9._-] and [a-zA-Z0-9._/-]
        IsNameChar(c) == IsAlnum(c) \/ c \in {46, 95, 45}
        IsPathChar(c) == IsNameChar(c) \/ c = 47
        \* the i flag
        lower == [i \in 1..n |-> IF endpoint[i] \in 65..90 THEN endpoint[i] + 32 ELSE endpoint[i]]
        invalid ==
            \* /^[a-zA-Z]$/, /^[0-9]+$/, /^[^a-zA-Z0-9\/]/
            \/ (n = 1 /\ IsLetter(endpoint[1]))
            \/ \A i \in 1..n : IsDigit(endpoint[i])
            \/ ~(IsAlnum(endpoint[1]) \/ endpoint[1] = 47)
            \* /^(true|false|null|undefined)$/i
            \/ lower \in { <<116, 114, 117, 101>>, <<102, 97, 108, 115, 101>>,
                         <<110, 117, 108, 108>>, <<117, 110, 100, 101, 102, 105, 110, 101, 100>> }
            \* /^[a-zA-Z]{1,2}$/
            \/ (n <= 2 /\ \A i \in 1..n : IsLetter(endpoint[i]))
            \* /^(var|let|const|function|return|if|else|for|while|class)$/i
            \/ lower \in { <<118, 97, 114>>, <<108, 101, 116>>,
                         <<99, 111, 110, 115, 116>>, <<102, 117, 110, 99, 116, 105, 111, 110>>,
                         <<114, 101, 116, 117, 114, 110>>, <<105, 102>>,
                         <<101, 108, 115, 101>>, <<102, 111, 114>>,
                         <<119, 104, 105, 108, 101>>, <<99, 108, 97, 115, 115>> }
            \* /^[\s\n\r\t]+$/, /^['"`,;(){}[\]]+$/
            \/ \A i \in 1..n : endpoint[i] \in {9, 10, 11, 12, 13, 32}
            \/ \A i \in 1..n : endpoint[i] \in {39, 34, 96, 44, 59, 40, 41, 123, 125, 91, 93}
        valid ==
            \* /^\/[a-zA-Z0-9]/, /^https?:\/\//, /^ws[s]?:\/\//
            \/ (endpoint[1] = 47 /\ IsAlnum(endpoint[2]))
            \/ StartsWith(endpoint, <<104, 116, 116, 112, 58, 47, 47>>) \/ StartsWith(endpoint, <<104, 116, 116, 112, 115, 58, 47, 47>>)
            \/ StartsWith(endpoint, <<119, 115, 58, 47, 47>>) \/ StartsWith(endpoint, <<119, 115, 115, 58, 47, 47>>)
            \* /\.[a-zA-Z0-9]+$/
            \/ \E i \in 1..(n - 1) : endpoint[i] = 46 /\ \A k \in (i + 1)..n : IsAlnum(endpoint[k])
            \* /\/[a-zA-Z0-9]/
            \/ \E i \in 1..(n - 1) : endpoint[i] = 47 /\ IsAlnum(endpoint[i + 1])
            \* /^[a-zA-Z0-9][a-zA-Z0-9._-]*\//
            \/ (IsAlnum(endpoint[1])
                /\ \E i \in 2..n : endpoint[i] = 47 /\ \A k \in 2..(i - 1) : IsNameChar(endpoint[k]))
            \* /api|graphql|rest|auth|login|admin|dashboard|config|upload|download|
            \*  data|users?|profile|settings/i
            \/ \E k \in { <<97, 112, 105>>, <<103, 114, 97, 112, 104, 113, 108>>,
                     <<114, 101, 115, 116>>, <<97, 117, 116, 104>>,
                     <<108, 111, 103, 105, 110>>, <<97, 100, 109, 105, 110>>,
                     <<100, 97, 115, 104, 98, 111, 97, 114, 100>>, <<99, 111, 110, 102, 105, 103>>,
                     <<117, 112, 108, 111, 97, 100>>, <<100, 111, 119, 110, 108, 111, 97, 100>>,
                     <<100, 97, 116, 97>>, <<117, 115, 101, 114>>,
                     <<112, 114, 111, 102, 105, 108, 101>>, <<115, 101, 116, 116, 105, 110, 103, 115>> } : Includes(lower, k)
            \* /\$\{[^}]*\}/
            \/ \E i \in 1..(n - 2) :
                   endpoint[i] = 36 /\ endpoint[i + 1] = 123 /\ \E j \in (i + 2)..n : endpoint[j] = 125
            \* /^[a-zA-Z0-9._-]+\/[a-zA-Z0-9._/-]+/
            \/ \E i \in 2..(n - 1) :
                   /\ endpoint[i] = 47
                   /\ \A k \in 1..(i - 1) : IsNameChar(endpoint[k])
                   /\ IsPathChar(endpoint[i + 1])
    IN  n >= 2 /\ ~invalid /\ valid

\* calculateConfidence: the score of the category
categoryScores ==
    [c \in {"urlPatterns", "httpMethodPatterns", "fetchPatterns", "routerPatterns",
            "websocketPatterns", "fullUrlPatterns", "configPatterns", "dynamicPatterns",
            "obfuscatedPatterns", "network_call", "network_call_resolved", "ast_literal",
            "template_literal", "template_literal_resolved", "string_concatenation",
            "variable_assignment", "line_analysis"} |->
        CASE c \in {"fetchPatterns", "websocketPatterns", "fullUrlPatterns",
                    "network_call", "network_call_resolved"} -> 5
          [] c \in {"httpMethodPatterns", "routerPatterns", "dynamicPatterns",
                    "template_literal_resolved", "string_concatenation"} -> 4
          [] c \in {"urlPatterns", "configPatterns", "obfuscatedPatterns",
                    "template_literal", "variable_assignment"} -> 3
          [] c = "ast_literal" -> 2
          [] OTHER -> 1]

\* calculateConfidence(endpoint, category, content, index)
calculateConfidence(endpoint, category, words) ==
    LET \* /\/v\d+/.test(endpoint)
        HasVersionSegment ==
            \E i \in 1..(Len(endpoint) - 2) :
                endpoint[i] = 47 /\ endpoint[i + 1] = 118 /\ IsDigit(endpoint[i + 2])
        EndpointScore ==
              (IF StartsWith(endpoint, <<47, 97, 112, 105, 47>>) THEN 3 ELSE 0)
            + (IF StartsWith(endpoint, <<47, 118>>) /\ HasVersionSegment THEN 2 ELSE 0)
            + (IF Includes(endpoint, <<103, 114, 97, 112, 104, 113, 108>>) THEN 2 ELSE 0)
            + (IF StartsWith(endpoint, <<104, 116, 116, 112>>) THEN 2 ELSE 0)
            + (IF StartsWith(endpoint, <<119, 115>>) THEN 2 ELSE 0)
            + (IF Includes(endpoint, <<97, 117, 116, 104>>) THEN 1 ELSE 0)
            + (IF Includes(endpoint, <<117, 115, 101, 114>>) THEN 1 ELSE 0)
            + (IF Includes(endpoint, <<97, 100, 109, 105, 110>>) THEN 1 ELSE 0)
        ContextScore ==
              (IF "fetch" \in words THEN 2 ELSE 0)
            + (IF "axios" \in words THEN 2 ELSE 0)
            + (IF "ajax" \in words THEN 2 ELSE 0)
            + (IF "request" \in words THEN 1 ELSE 0)
            + (IF "url" \in words THEN 1 ELSE 0)
        score == categoryScores[category] + EndpointScore + ContextScore
    IN  IF score >= 8 THEN "HIGH" ELSE IF score >= 4 THEN "MEDIUM" ELSE "LOW"

\* the `endpoints` Map of one extractEndpoints call: entries in insertion
\* order; every pass writes `if (!endpoints.has(key)) endpoints.set(key, ...)`
RECURSIVE MapAddAll(_, _)
MapAddAll(map, entries) ==
    IF entries = <<>> THEN map
    ELSE MapAddAll(IF \E k \in 1..Len(map) : map[k].key = Head(entries).key
                   THEN map
                   ELSE Append(map, Head(entries)),
                   Tail(entries))

Entry(url, tag, method, at, category, confidence) ==
    [key |-> [url |-> url, tag |-> tag, method |-> method, at |-> at],
     value |-> [url |-> url, method |-> method, category |-> category,
                confidence |-> confidence]]

\* Object.keys(this.patterns), in the order of the object
patterns ==
    <<"urlPatterns", "httpMethodPatterns", "fetchPatterns", "routerPatterns",
      "websocketPatterns", "fullUrlPatterns", "configPatterns", "dynamicPatterns",
      "obfuscatedPatterns">>

\* variant: the patterns of the command line replace this.patterns
PatternCategories_customOnly(customEndpointRegex) ==
    IF customEndpointRegex = <<>> THEN patterns ELSE <<>>

\* extractEndpoints(content, fileUrl) has no third parameter: what the crawler
\* passes as customEndpointRegex reaches no pass, and extractWithRegex walks
\* this.patterns
PatternCategories(customEndpointRegex) == patterns

\* extractWithRegex. What the patterns of a category capture in a line:
\*   urlPatterns         /['"`]\/api\/[^'"`\s]+['"`]/ on a quoted literal
\*   httpMethodPatterns  /\.get\s*\(\s*['"`]([^'"`]+)['"`]/
\*   fetchPatterns       /fetch\s*\(\s*['"`]([^'"`]+)['"`]/
\*   dynamicPatterns     /['"`]([^'"`]*\/[^'"`]*?)['"`]\s*\+\s*['"`]([^'"`]+?)['"`]/
\*                       (two groups: part1 + part2), then
\*                       /const\s+\w+\s*=\s*['"`]([^'"`]*\/[^'"`]+?)['"`]/
\*   obfuscatedPatterns  /['"`]([^'"`]{2,}?)['"`]\s*\+\s*['"`]([^'"`]{2,}?)['"`]/
\*                       (combined, else part1, else part2, whichever is valid)
\* the other patterns need text that no line considered has
RegexEntries(content, customEndpointRegex) ==
    LET categories == PatternCategories(customEndpointRegex)
        HasSlashInside(e) == \E i \in 1..(Len(e) - 1) : e[i] = 47
        Captured(category, s) ==
            CASE category = "urlPatterns" ->
                    IF HasLiteral(s) /\ StartsWith(s.arg, <<47, 97, 112, 105, 47>>) /\ Len(s.arg) > 5
                    THEN <<s.arg>> ELSE <<>>
              [] category = "httpMethodPatterns" ->
                    IF s.kind = "call" /\ s.callee = "get" THEN <<s.arg>> ELSE <<>>
              [] category = "fetchPatterns" ->
                    IF s.kind = "call" /\ s.callee = "fetch" THEN <<s.arg>> ELSE <<>>
              [] category = "dynamicPatterns" ->
                    IF s.kind = "decl" /\ HasSlashInside(s.arg) THEN <<s.arg>>
                    ELSE IF s.kind = "concatFetch"
                    THEN (IF Includes(s.arg, <<47>>) /\ cleanEndpoint(s.arg) # <<>>
                             /\ cleanEndpoint(s.plus) # <<>>
                          THEN << cleanEndpoint(s.arg) \o cleanEndpoint(s.plus) >> ELSE <<>>)
                         \o (IF HasSlashInside(s.arg) THEN <<s.arg>> ELSE <<>>)
                    ELSE <<>>
              [] category = "obfuscatedPatterns" ->
                    IF s.kind = "concatFetch" /\ Len(s.arg) >= 2 /\ Len(s.plus) >= 2
                       /\ cleanEndpoint(s.arg) # <<>> /\ cleanEndpoint(s.plus) # <<>>
                    THEN LET part1 == cleanEndpoint(s.arg)
                             part2 == cleanEndpoint(s.plus)
                         IN  IF isValidEndpoint(part1 \o part2) THEN << part1 \o part2 >>
                             ELSE IF isValidEndpoint(part1) THEN <<part1>>
                             ELSE IF isValidEndpoint(part2) THEN <<part2>>
                             ELSE <<>>
                    ELSE <<>>
              [] OTHER -> <<>>
        Entries(category, s, at) ==
            LET found == Captured(category, s)
            IN  Flatten([k \in 1..Len(found) |->
                    LET endpoint == cleanEndpoint(found[k])
                    IN  IF isValidEndpoint(endpoint)
                        THEN << Entry(endpoint, category, detectHttpMethod(s), at, category,
                                      calculateConfidence(endpoint, category, ContextWords(s))) >>
                        ELSE <<>>])
    IN  Flatten([c \in 1..Len(categories) |->
            Flatten([i \in 1..Len(content) |-> Entries(categories[c], content[i], i)])])

\* extractWithAST: this.variables.clear(), then collectVariables
ClearedVariables_kept(vs) == vs

ClearedVariables(vs) == EmptyVariables

\* collectVariables: a Literal init, and a BinaryExpression init through
\* resolveBinaryExpression (both operands are literals)
RECURSIVE collectVariables(_, _)
collectVariables(content, vs) ==
    IF content = <<>> THEN vs
    ELSE collectVariables(Tail(content),
                          IF Head(content).kind = "decl"
                          THEN [vs EXCEPT !["x"] = Head(content).arg]
                          ELSE IF Head(content).kind = "concatFetch"
                               THEN [vs EXCEPT !["x"] = Head(content).arg \o Head(content).plus]
                               ELSE vs)

\* traverseAST on one statement, in pre-order. A CallExpression:
\* extractFromCallExpression (resolved, then direct literal), then the Literal
\* child. A declaration with a BinaryExpression init: the concatenation, then
\* its two Literal children.
ASTStatement(s, vs) ==
    LET \* methodName.toUpperCase()
        methodName == IF s.callee = "fetch" THEN "FETCH" ELSE "GET"
        \* resolveValue(node) for a Literal and for the Identifier x
        resolved == IF s.kind \in {"callVar", "concatFetch"} THEN vs["x"] ELSE s.arg
        Literal(value) ==
            IF isValidEndpoint(cleanEndpoint(value))
            THEN << Entry(cleanEndpoint(value), "ast_literal", "UNKNOWN", 0, "ast_literal",
                          calculateConfidence(cleanEndpoint(value), "ast_literal",
                                              ContextWords(s))) >>
            ELSE <<>>
        Call ==
            (IF resolved # NoValue /\ isValidEndpoint(resolved)
             THEN << Entry(resolved, "resolved", methodName, 0, "network_call_resolved", "HIGH") >>
             ELSE <<>>)
            \o
            (IF s.kind = "call" /\ isValidEndpoint(cleanEndpoint(s.arg))
             THEN << Entry(cleanEndpoint(s.arg), "literal", methodName, 0, "network_call", "HIGH") >>
             ELSE <<>>)
    IN  CASE s.kind = "call" -> Call \o Literal(s.arg)
          [] s.kind = "callVar" -> Call
          [] s.kind = "decl" -> Literal(s.arg)
          [] s.kind = "concatFetch" ->
                (IF isValidEndpoint(s.arg \o s.plus)
                 THEN << Entry(s.arg \o s.plus, "concatenation", "UNKNOWN", 0,
                               "string_concatenation",
                               calculateConfidence(s.arg \o s.plus, "string_concatenation",
                                                   ContextWords(s))) >>
                 ELSE <<>>)
                \o Literal(s.arg) \o Literal(s.plus) \o Call
          [] OTHER -> <<>>

\* extractWithLineAnalysis: /['"`](\/[^'"`\s]*\/[^'"`\s]*?)['"`]/ on the line
LineEntries(content) ==
    LET LineMatches(s) ==
            /\ HasLiteral(s) \/ s.kind = "concatFetch"
            /\ Len(s.arg) >= 2
            /\ s.arg[1] = 47
            /\ \E i \in 2..Len(s.arg) : s.arg[i] = 47
    IN  Flatten([i \in 1..Len(content) |->
            IF LineMatches(content[i]) /\ isValidEndpoint(cleanEndpoint(content[i].arg))
            THEN << Entry(cleanEndpoint(content[i].arg), "line", detectHttpMethod(content[i]),
                          i - 1, "line_analysis",
                          calculateConfidence(cleanEndpoint(content[i].arg), "line_analysis",
                                              ContextWords(content[i]))) >>
            ELSE <<>>])

\* deduplicateEndpoints(endpoints)
confidenceOrder == [c \in {"HIGH", "MEDIUM", "LOW"} |->
                       IF c = "HIGH" THEN 3 ELSE IF c = "MEDIUM" THEN 2 ELSE 1]

preferredCategories == {"network_call", "network_call_resolved", "fetchPatterns"}

DedupStep_firstWins(urlMap, endpoint) ==
    IF \E k \in 1..Len(urlMap) : urlMap[k].url = endpoint.url
    THEN urlMap
    ELSE Append(urlMap, endpoint)

DedupStep(urlMap, endpoint) ==
    IF ~\E k \in 1..Len(urlMap) : urlMap[k].url = endpoint.url
    THEN Append(urlMap, endpoint)
    ELSE LET k == CHOOSE n \in 1..Len(urlMap) : urlMap[n].url = endpoint.url
             existingScore == confidenceOrder[urlMap[k].confidence]
             newScore == confidenceOrder[endpoint.confidence]
         IN  IF newScore > existingScore
             THEN [urlMap EXCEPT ![k] = endpoint]
             ELSE IF /\ newScore = existingScore
                     /\ endpoint.category \in preferredCategories
                     /\ urlMap[k].category \notin preferredCategories
                  THEN [urlMap EXCEPT ![k] = endpoint]
                  ELSE urlMap

\* for (const endpoint of endpoints) ...; Array.from(urlMap.values())
RECURSIVE deduplicateEndpoints(_, _)
deduplicateEndpoints(urlMap, endpoints) ==
    IF endpoints = <<>> THEN urlMap
    ELSE deduplicateEndpoints(DedupStep(urlMap, Head(endpoints)), Tail(endpoints))

\* extractEndpoints(content, fileUrl) on an extractor whose variables are vs,
\* called as extractEndpoints(content, respUrl, customEndpointRegex)
extractEndpoints(content, vs, customEndpointRegex) ==
    LET afterRegex == MapAddAll(<<>>, RegexEntries(content, customEndpointRegex))
        collected == IF Parses(content)
                     THEN collectVariables(content, ClearedVariables(vs))
                     ELSE vs
        \* callee.property.name is undefined for z["f"](): methodName.toLowerCase()
        \* throws, and the catch of extractWithAST ends the traversal there
        throwing == { i \in 1..Len(content) : content[i].kind = "computed" }
        visited == IF throwing = {} THEN Len(content)
                   ELSE (CHOOSE i \in throwing : \A k \in throwing : i <= k) - 1
        afterAST == IF Parses(content)
                    THEN MapAddAll(afterRegex,
                                   Flatten([i \in 1..visited |->
                                               ASTStatement(content[i], collected)]))
                    ELSE afterRegex
        afterLines == MapAddAll(afterAST, LineEntries(content))
        values == [k \in 1..Len(afterLines) |-> afterLines[k].value]
    IN  [variables |-> collected,
         candidates |-> values,
         result |-> deduplicateEndpoints(<<>>, values)]

NoProbe == [valid |-> FALSE, result |-> <<>>, othersSince |-> FALSE, again |-> FALSE]

\* one call of the shared endpointExtractor by the crawler. Recorded with it:
\* `plain`, what the call returns when no custom pattern is passed, and
\* `others`, what it returns for the content without the lines whose
\* resolution throws
Extract(content, customEndpointRegex) ==
    LET hasComputed == \E i \in 1..Len(content) : content[i].kind = "computed"
        \* the call itself; the same call without custom patterns; the same call
        \* on the content without its computed-member statements
        calls == {"run"} \cup (IF customEndpointRegex # <<>> THEN {"plain"} ELSE {})
                         \cup (IF hasComputed THEN {"others"} ELSE {})
    IN
    \E runs \in {[call \in calls |->
                     extractEndpoints(
                         IF call = "others"
                         THEN SelectSeq(content, LAMBDA s : s.kind # "computed")
                         ELSE content,
                         variables,
                         IF call = "plain" THEN <<>> ELSE customEndpointRegex)]} :
        /\ variables' = runs["run"].variables
        /\ lastExtract' =
               [valid |-> TRUE, content |-> content, custom |-> customEndpointRegex,
                candidates |-> runs["run"].candidates, result |-> runs["run"].result,
                plain |-> runs[IF "plain" \in calls THEN "plain" ELSE "run"].result,
                others |-> runs[IF "others" \in calls THEN "others" ELSE "run"].result]
        /\ probeFirst' =
               IF content # probe
               THEN [probeFirst EXCEPT !.othersSince = probeFirst.valid]
               ELSE IF probeFirst.valid
                    THEN [probeFirst EXCEPT !.again = TRUE]
                    ELSE [NoProbe EXCEPT !.valid = TRUE, !.result = runs["run"].result]
        /\ UNCHANGED <<probe, notifyVars, crawlVars, liveVars, storeVars, simVars, callVars>>

----------------------------------------------------------------------------
(* endpointExtractor.js: saveEndpoints *)

\* "/api/a", "users", "/login"
StoreUrls == <<ApiA, Users, <<47, 108, 111, 103, 105, 110>> >>

\* the `endpoints` argument: what extractEndpoints returned for one file, so
\* no url twice; "none" leaves the url out
SaveInputs ==
    LET SavedEndpoints(pick) ==
            Flatten([i \in 1..Len(StoreUrls) |->
                IF pick[i] = "none" THEN <<>>
                ELSE << [url |-> StoreUrls[i], confidence |-> pick[i]] >>])
    IN  { SavedEndpoints(pick) : pick \in [1..Len(StoreUrls) -> {"none", "LOW", "HIGH"}] }

\* newEndpoints.filter(ep => !existingUrls.has(ep.url))
genuinelyNewEndpoints(all, newEndpoints) ==
    SelectSeq(newEndpoints, LAMBDA ep : ep.url \notin { all[i].url : i \in 1..Len(all) })

\* allEndpoints.sort((a, b) => new Date(a.timestamp) - new Date(b.timestamp)):
\* Array.prototype.sort is stable
RECURSIVE SortByTimestamp(_)
SortByTimestamp(all) ==
    LET RECURSIVE Insert(_, _)
        Insert(sorted, ep) ==
            IF sorted = <<>> THEN <<ep>>
            ELSE IF Head(sorted).timestamp <= ep.timestamp
                 THEN <<Head(sorted)>> \o Insert(Tail(sorted), ep)
                 ELSE <<ep>> \o sorted
    IN  IF all = <<>> THEN <<>>
        ELSE Insert(SortByTimestamp(SubSeq(all, 1, Len(all) - 1)), all[Len(all)])

\* if (totalAfterAdd > maxEndpoints): sort, then allEndpoints.splice(0, excessCount)
TrimmedEndpoints(all, genuinelyNew, cap) ==
    LET totalAfterAdd == Len(all) + Len(genuinelyNew)
        excessCount == totalAfterAdd - cap
    IN  IF totalAfterAdd > cap
        THEN IF excessCount >= Len(all) THEN <<>>
             ELSE SubSeq(SortByTimestamp(all), excessCount + 1, Len(all))
        ELSE all

NoSave == [saved |-> FALSE, before |-> <<>>, kept |-> <<>>, added |-> <<>>]

saveEndpoints(endpoints) ==
    /\ saves < MaxSaves
    /\ saves' = saves + 1
    /\ IF endpoints = <<>>
       THEN /\ lastSave' = NoSave
            /\ UNCHANGED <<allEndpointsFile, everSaved>>
       ELSE LET \* endpoints.map(...): timestamp = new Date().toISOString()
                newEndpoints ==
                    [i \in 1..Len(endpoints) |->
                        [url |-> endpoints[i].url, confidence |-> endpoints[i].confidence,
                         timestamp |-> saves + 1]]
                genuinelyNew == genuinelyNewEndpoints(allEndpointsFile, newEndpoints)
                kept == TrimmedEndpoints(allEndpointsFile, genuinelyNew, maxEndpointsPerDomain)
                \* the confidence at which this call offers the url, 0 if it does not
                SavedScore(url) ==
                    IF \E i \in 1..Len(endpoints) : endpoints[i].url = url
                    THEN confidenceOrder[endpoints[CHOOSE i \in 1..Len(endpoints) :
                                                      endpoints[i].url = url].confidence]
                    ELSE 0
            IN  /\ allEndpointsFile' = kept \o genuinelyNew
                /\ everSaved' = [i \in 1..Len(StoreUrls) |->
                                    IF everSaved[i] >= SavedScore(StoreUrls[i])
                                    THEN everSaved[i]
                                    ELSE SavedScore(StoreUrls[i])]
                /\ lastSave' = [saved |-> TRUE, before |-> allEndpointsFile,
                                kept |-> kept, added |-> genuinelyNew]
    /\ UNCHANGED <<maxEndpointsPerDomain, notifyVars, crawlVars, liveVars, extractVars, simVars,
                   callVars>>

----------------------------------------------------------------------------
(* CodeSimilarityAnalyzer *)

\* weights and threshold, in tenths
similarityThreshold == 7

functionSignatureWeight == 4

importExportWeight == 3

contentHashWeight == 3

\* Array.from(new Set(matches))
Distinct_keepAll(matches) == matches

Distinct(matches) ==
    LET RECURSIVE UpTo(_)
        UpTo(n) ==
            IF n = 0 THEN <<>>
            ELSE LET front == UpTo(n - 1)
                 IN  IF \E k \in 1..Len(front) : front[k] = matches[n]
                     THEN front
                     ELSE Append(front, matches[n])
    IN  UpTo(Len(matches))

\* Array.prototype.sort()
RECURSIVE Sorted(_)
Sorted(a) ==
    LET RECURSIVE Insert(_, _)
        Insert(sorted, x) ==
            IF sorted = <<>> THEN <<x>>
            ELSE IF Head(sorted) <= x
                 THEN <<Head(sorted)>> \o Insert(Tail(sorted), x)
                 ELSE <<x>> \o sorted
    IN  IF a = <<>> THEN <<>>
        ELSE Insert(Sorted(SubSeq(a, 1, Len(a) - 1)), a[Len(a)])

createCodeFingerprint(code) ==
    [functionSignatures |-> Sorted(Distinct(code.signatures)),
     importExports |-> Sorted(Distinct(code.importExports)),
     contentHash |-> Hash(<<code.normalized>>)]

\* the fingerprints of the files considered. A file as the fingerprint sees
\* it: the regex matches for signatures and for import/export statements, in
\* the order found (a declaration can occur twice), and the comment- and
\* whitespace-free text that is hashed
Fingerprints ==
    { createCodeFingerprint(code) :
          code \in [signatures : { <<>>, <<1>>, <<1, 1>>, <<1, 2>> },
                    importExports : { <<>>, <<1>> },
                    normalized : {1, 2}] }

calculateSimilarity(fingerprint1, fingerprint2) ==
    LET \* a.filter(x => b.includes(x)).length
        CommonCount(a, b) == Len(SelectSeq(a, LAMBDA x : \E k \in 1..Len(b) : b[k] = x))
        \* new Set([...a, ...b]).size
        TotalCount(a, b) ==
            Cardinality({ a[k] : k \in 1..Len(a) } \cup { b[k] : k \in 1..Len(b) })
        \* total > 0 ? common / total : 0, as a fraction
        Ratio(common, total) ==
            IF total > 0 THEN [num |-> common, den |-> total] ELSE [num |-> 0, den |-> 1]
        signatureSimilarity ==
            Ratio(CommonCount(fingerprint1.functionSignatures, fingerprint2.functionSignatures),
                  TotalCount(fingerprint1.functionSignatures, fingerprint2.functionSignatures))
        importExportSimilarity ==
            Ratio(CommonCount(fingerprint1.importExports, fingerprint2.importExports),
                  TotalCount(fingerprint1.importExports, fingerprint2.importExports))
        contentSimilarity ==
            IF fingerprint1.contentHash = fingerprint2.contentHash THEN 1 ELSE 0
    IN  [overall |->
             [num |-> signatureSimilarity.num * functionSignatureWeight * importExportSimilarity.den
                      + importExportSimilarity.num * importExportWeight * signatureSimilarity.den
                      + contentSimilarity * contentHashWeight
                            * signatureSimilarity.den * importExportSimilarity.den,
              den |-> 10 * signatureSimilarity.den * importExportSimilarity.den],
         signatures |-> signatureSimilarity,
         importExports |-> importExportSimilarity,
         content |-> contentSimilarity]

\* similarity.overall >= this.similarityThreshold
Similar(a, b) ==
    LET overall == calculateSimilarity(a, b).overall
    IN  overall.num * 10 >= similarityThreshold * overall.den

JoinsCluster_anyMember(members, j) ==
    \E m \in 1..Len(members) : Similar(fingerprints[members[m]], fingerprints[j])

JoinsCluster(members, j) == Similar(fingerprints[members[1]], fingerprints[j])

ReportedAsCluster_always(members) == TRUE

ReportedAsCluster(members) == Len(members) > 1

\* if (processed.has(url1)) continue
SkipProcessed ==
    /\ simPc = "outer"
    /\ simI <= Len(fingerprints)
    /\ simI \in processed
    /\ simI' = simI + 1
    /\ UNCHANGED <<fingerprints, simPc, simJ, processed, cluster, relationships, lastCompare>>
    /\ UNCHANGED <<notifyVars, crawlVars, liveVars, extractVars, storeVars, callVars>>

\* const cluster = [url1]; processed.add(url1)
OpenCluster ==
    /\ simPc = "outer"
    /\ simI <= Len(fingerprints)
    /\ simI \notin processed
    /\ cluster' = <<simI>>
    /\ processed' = processed \cup {simI}
    /\ simJ' = simI + 1
    /\ simPc' = "inner"
    /\ UNCHANGED <<fingerprints, simI, relationships, lastCompare>>
    /\ UNCHANGED <<notifyVars, crawlVars, liveVars, extractVars, storeVars, callVars>>

\* if (processed.has(url2)) continue
SkipAssigned ==
    /\ simPc = "inner"
    /\ simJ <= Len(fingerprints)
    /\ simJ \in processed
    /\ simJ' = simJ + 1
    /\ UNCHANGED <<fingerprints, simPc, simI, processed, cluster, relationships, lastCompare>>
    /\ UNCHANGED <<notifyVars, crawlVars, liveVars, extractVars, storeVars, callVars>>

CompareToSeed ==
    /\ simPc = "inner"
    /\ simJ <= Len(fingerprints)
    /\ simJ \notin processed
    /\ lastCompare' = [valid |-> TRUE, first |-> fingerprints[simI], second |-> fingerprints[simJ],
                       result |-> calculateSimilarity(fingerprints[simI], fingerprints[simJ])]
    /\ IF JoinsCluster(cluster, simJ)
       THEN /\ cluster' = Append(cluster, simJ)
            /\ processed' = processed \cup {simJ}
       ELSE UNCHANGED <<cluster, processed>>
    /\ simJ' = simJ + 1
    /\ UNCHANGED <<fingerprints, simPc, simI, relationships>>
    /\ UNCHANGED <<notifyVars, crawlVars, liveVars, extractVars, storeVars, callVars>>

\* if (cluster.length > 1) clusters.push(...) else singletons.push(url1)
CloseCluster ==
    /\ simPc = "inner"
    /\ simJ > Len(fingerprints)
    /\ relationships' =
           IF ReportedAsCluster(cluster)
           THEN [relationships EXCEPT !.clusters = Append(@, cluster)]
           ELSE [relationships EXCEPT !.singletons = Append(@, cluster[1])]
    /\ cluster' = <<>>
    /\ simI' = simI + 1
    /\ simPc' = "outer"
    /\ UNCHANGED <<fingerprints, simJ, processed, lastCompare>>
    /\ UNCHANGED <<notifyVars, crawlVars, liveVars, extractVars, storeVars, callVars>>

\* the relationships are written and returned
FinishAnalysis ==
    /\ simPc = "outer"
    /\ simI > Len(fingerprints)
    /\ simPc' = "done"
    /\ UNCHANGED <<fingerprints, simI, simJ, processed, cluster, relationships, lastCompare>>
    /\ UNCHANGED <<notifyVars, crawlVars, liveVars, extractVars, storeVars, callVars>>

----------------------------------------------------------------------------
(* Specifications *)

\* the state after construction, component by component
InitNotifier(webhook) ==
    /\ enabled = webhook
    /\ batchedChanges = EmptyBatch
    /\ lastSummarySignature = <<>>
    /\ lastSummaryTime = 0
    /\ rateLimitReset = 0
    /\ now = 0
    /\ pendingNotifications = <<>>
    /\ flight = NoFlight
    /\ lastFlush = NoFlush
    /\ delivered = [some |-> FALSE, content |-> SemanticContent(EmptyBatch), at |-> 0,
                    failed |-> SemanticContent(EmptyBatch)]

InitCrawler ==
    /\ hashFile = [state |-> "absent", map |-> EmptyMap]
    /\ rawFiles = [f \in { FileName(u) : u \in URLs } |-> NoFile]
    /\ beautifiedFiles = [f \in { FileName(u) : u \in URLs } |-> NoFile]
    /\ processedUrls = {}
    /\ inflight = {}
    /\ pageOpen = FALSE
    /\ pagesDone = 0
    /\ results = ZeroResults
    /\ lastResult = [valid |-> FALSE, url |-> <<>>, isNew |-> FALSE, changed |-> FALSE,
                     hash |-> NoHash, diffInfo |-> NoDiffInfo, preview |-> NoPreview,
                     first |-> FALSE, sameBytes |-> FALSE, priorRecord |-> FALSE,
                     unreadable |-> FALSE, raised |-> FALSE, others |-> {}]
    /\ lastObs = [u \in URLs |-> NoFile]
    /\ classified = EmptyMap
    /\ erred = FALSE
    /\ faultsInjected = 0

\* pc: where cli.js starts ("api": the components are driven at their interface)
InitLive(pc) ==
    /\ livePc = pc
    /\ scans = 0
    /\ sendFlight = NoSendFlight
    /\ toSend = <<>>
    /\ lastSend = [outcome |-> "none", type |-> "none"]
    /\ raised = FALSE

\* probes: the contents whose extraction is repeated
InitExtractor(probes) ==
    /\ variables = EmptyVariables
    /\ probe \in probes
    /\ probeFirst = NoProbe
    /\ lastExtract = [valid |-> FALSE, content |-> <<>>, custom |-> <<>>, candidates |-> <<>>,
                      result |-> <<>>, plain |-> <<>>, others |-> <<>>]

\* caps: the values of maxEndpointsPerDomain
InitStore(caps) ==
    /\ allEndpointsFile = <<>>
    /\ maxEndpointsPerDomain \in caps
    /\ saves = 0
    /\ everSaved = [i \in 1..Len(StoreUrls) |-> 0]
    /\ lastSave = NoSave

\* inputs: the fingerprint lists handed to analyzeFileRelationships
InitAnalyzer(inputs) ==
    /\ fingerprints \in inputs
    /\ simPc = "outer"
    /\ simI = 1
    /\ simJ = 1
    /\ processed = {}
    /\ cluster = <<>>
    /\ relationships = [clusters |-> <<>>, singletons |-> <<>>]
    /\ lastCompare = [valid |-> FALSE, first |-> <<>>, second |-> <<>>, result |-> <<>>]

\* no call made yet
NotCalled == <<-1>>

\* arguments: what the function under study is called with
Init(webhook, pc, probes, caps, inputs, arguments) ==
    /\ InitNotifier(webhook)
    /\ InitCrawler
    /\ InitLive(pc)
    /\ InitExtractor(probes)
    /\ InitStore(caps)
    /\ InitAnalyzer(inputs)
    /\ callArgument \in arguments
    /\ callResult = NotCalled

NextCrawl ==
    \/ OpenPage
    \/ ClosePage
    \/ \E u \in URLs : ResponseFiltered(u)
    \/ \E u \in URLs : ResponseBadStatus(u)
    \/ \E u \in URLs : ResponseAccepted(u)
    \/ \E u \in URLs : FetchFail(u)
    \/ \E u \in URLs, b \in Contents : FetchDone(u, b)

\* a run without --discord-webhook
SpecCrawl ==
    Init(FALSE, "api", {<<>>}, {MaxCap}, {<<>>}, {<<>>})
        /\ [][NextCrawl]_vars

NextCrawlFaults ==
    \/ NextCrawl
    \/ \E u \in URLs, b \in Contents, f \in Faults : FetchDoneFault(u, b, f)
    \/ \E u \in URLs, b \in Contents, f \in Faults : Crash(u, b, f)
    \/ CorruptStore

SpecCrawlFaults ==
    Init(FALSE, "api", {<<>>}, {MaxCap}, {<<>>}, {<<>>})
        /\ [][NextCrawlFaults]_vars

\* a run with --discord-webhook; the notifier seen at its interface
NextNotify ==
    \/ \E d \in NewFileItems : AddToBatch("new_file", d)
    \/ AddToBatch("file_changed", [url |-> <<65, 97>>, addedLines |-> 1,
                                    removedLines |-> 0, totalLines |-> 12])
    \/ \E d \in ErrorItems : AddToBatch("error", d)
    \/ AddToBatch("endpoints_found", [url |-> <<65, 97>>, newEndpoints |-> 1,
                                       highConfidence |-> 1, mediumConfidence |-> 0,
                                       lowConfidence |-> 0])
    \/ FlushEmpty
    \/ FlushSuppressed
    \/ FlushSend
    \/ \E o \in {"ok", "status", "throw"} : FlushResponse(o, NoHeader)
    \/ \E h \in {NoHeader, 200} : FlushResponse("429", h)
    \/ Tick

SpecNotify ==
    Init(TRUE, "api", {<<>>}, {MaxCap}, {<<>>}, {<<>>})
        /\ [][NextNotify]_vars

\* cli.js --live with --discord-webhook: the notifier driven by the live loop
LiveStep ==
    \/ LiveStart
    \/ LiveRunCrawler
    \/ \E d \in NewFileItems : AddToBatch("new_file", d)
    \/ \E d \in ErrorItems : LiveScanNotify(d)
    \/ LiveScanDone
    \/ LiveScanError
    \/ FlushEmpty
    \/ FlushSuppressed
    \/ FlushSend
    \/ ProcessQueued
    \/ QueueSendNext
    \/ LiveSleep

NextLive ==
    \/ LiveStep
    \/ \E o \in {"ok", "status", "throw"} : FlushResponse(o, NoHeader)
    \/ FlushResponse("429", NoHeader)
    \/ \E o \in {"ok", "status", "throw"} : SendResponse(o, NoHeader)
    \/ SendResponse("429", NoHeader)
    \/ Tick

SpecLive ==
    Init(TRUE, "start", {<<>>}, {MaxCap}, {<<>>}, {<<>>})
        /\ [][NextLive]_vars

\* the event loop runs every continuation that is ready; no response of the
\* webhook is guaranteed to arrive
SpecLiveFair == SpecLive /\ WF_vars(LiveStep)

\* the endpoint extractor at its interface, without --endpoint-regex
NextExtract ==
    \E c \in ExtractContents({"call", "decl", "callVar", "bad"}) : Extract(c, <<>>)

\* the contents whose extraction is repeated: `const x = "users"`, `fetch(x)`
SpecExtract ==
    Init(FALSE, "api", { c \in ExtractContents({"decl", "callVar"}) : Len(c) = 1 },
         {MaxCap}, {<<>>}, {<<>>})
        /\ [][NextExtract]_vars

\* the extractor on contents that need resolution
\* customEndpointRegex: opts.endpointRegex || null, here null or one pattern
NextResolve ==
    \E c \in ExtractContents({"decl", "callVar", "concatFetch", "computed"}),
       customEndpointRegex \in {<<>>, <<"/v2/">>} :
        Extract(c, customEndpointRegex)

SpecResolve ==
    Init(FALSE, "api", {<<>>}, {MaxCap}, {<<>>}, {<<>>}) /\ [][NextResolve]_vars

\* one domain's endpoint store under a sequence of saveEndpoints calls
NextSave == \E endpoints \in SaveInputs : saveEndpoints(endpoints)

SpecSave ==
    Init(FALSE, "api", {<<>>}, 1..MaxCap, {<<>>}, {<<>>})
        /\ [][NextSave]_vars

NextCluster ==
    \/ SkipProcessed
    \/ OpenCluster
    \/ SkipAssigned
    \/ CompareToSeed
    \/ CloseCluster
    \/ FinishAnalysis

SpecCluster ==
    Init(FALSE, "api", {<<>>}, {MaxCap},
         UNION { [1..n -> Fingerprints] : n \in 0..MaxFiles }, {<<>>})
        /\ [][NextCluster]_vars

\* cleanEndpoint at its interface
CallCleanEndpoint ==
    /\ callResult = NotCalled
    /\ callResult' = cleanEndpoint(callArgument)
    /\ UNCHANGED <<callArgument, notifyVars, crawlVars, liveVars, extractVars, storeVars, simVars>>

\* the candidates: strings of up to MaxChars characters out of  x / $ { } ' ) and blank
SpecClean ==
    Init(FALSE, "api", {<<>>}, {MaxCap}, {<<>>},
         UNION { [1..n -> {120, 47, 36, 123, 125, 39, 41, 32}] : n \in 0..MaxChars })
        /\ [][CallCleanEndpoint]_vars

\* a run with --discord-webhook in which processing fails for the urls "Aa" and "BB"
NextDuplicate ==
    \/ \E url \in {<<65, 97>>, <<66, 66>>} :
           AddToBatch("error", [url |-> url, type |-> FILE_PROCESSING_ERROR])
    \/ FlushEmpty
    \/ FlushSuppressed
    \/ FlushSend
    \/ \E o \in {"ok", "status"} : FlushResponse(o, NoHeader)
    \/ Tick

SpecDuplicate ==
    Init(TRUE, "api", {<<>>}, {MaxCap}, {<<>>}, {<<>>}) /\ [][NextDuplicate]_vars

\* handleNetworkError(error, url): "dns" stands for the net::ERR_ messages that
\* are recoverable, the other messages fall through to UNKNOWN_ERROR
handleNetworkError(error) ==
    IF error = "dns" THEN [type |-> "DNS_ERROR", recoverable |-> TRUE]
    ELSE [type |-> "UNKNOWN_ERROR", recoverable |-> FALSE]

\* one iteration of the for loop over urls in runCrawler; the argument is
\* [urls, liveMode], a url being given by what scanning it meets: "ok", "invalid"
\* (new URL throws), "dns" or "fatal" (page.goto throws). The loop state is
\* <<i, results, thrown>>: the urls visited so far, the counters, and whether an
\* exception left the loop.
ScanUrl ==
    LET loop == IF callResult = NotCalled
                THEN <<0, [urlsProcessed |-> 0, urlsFailed |-> 0, errors |-> 0,
                           errorDetails |-> <<>>], FALSE>>
                ELSE callResult
        i       == loop[1] + 1
        counts  == loop[2]
        url     == callArgument.urls[i]
        \* `const statusMessages` is declared inside the try block (line 217):
        \* the catch block is outside its scope
        statusMessagesInCatch == FALSE
        \* catch (gotoError)
        afterGoto ==
            IF url \in {"dns", "fatal"}
            THEN [counts EXCEPT !.errorDetails =
                     Append(@, [url |-> i, type |-> handleNetworkError(url).type])]
            ELSE counts
        toPageCatch == url = "invalid" \/ (url = "fatal" /\ ~handleNetworkError(url).recoverable)
        \* catch (pageError): its second statement reads statusMessages
        afterCatch ==
            IF statusMessagesInCatch
            THEN <<i, [afterGoto EXCEPT
                         !.errors = @ + 1, !.urlsFailed = @ + 1,
                         !.errorDetails =
                             Append(@, [url |-> i, type |-> handleNetworkError(url).type])],
                   ~callArgument.liveMode /\ ~handleNetworkError(url).recoverable>>
            ELSE <<i, afterGoto, TRUE>>
    IN  /\ callArgument # <<>>
        /\ ~loop[3]
        /\ loop[1] < Len(callArgument.urls)
        /\ callResult' =
               IF toPageCatch THEN afterCatch
               ELSE IF url = "ok" THEN <<i, [afterGoto EXCEPT !.urlsProcessed = @ + 1], FALSE>>
               ELSE <<i, [afterGoto EXCEPT !.urlsFailed = @ + 1], FALSE>>
        /\ UNCHANGED <<callArgument, notifyVars, crawlVars, liveVars, extractVars, storeVars,
                       simVars>>

\* up to MaxUrls target urls, with and without --live
SpecUrls ==
    Init(FALSE, "api", {<<>>}, {MaxCap}, {<<>>},
         [urls : UNION { [1..n -> {"ok", "invalid", "dns", "fatal"}] : n \in 1..MaxUrls },
          liveMode : BOOLEAN])
        /\ [][ScanUrl]_vars

\* saveJSFile writes data/<domain>/original/<fileName>.js for the url;
\* analyzeFileRelationships reads the directory and decodes the file's name
CallDecodeFileName ==
    /\ callResult = NotCalled
    /\ callResult' = decodeFileName(FileName(callArgument) \o <<46, 106, 115>>)
    /\ UNCHANGED <<callArgument, notifyVars, crawlVars, liveVars, extractVars, storeVars, simVars>>

\* the urls: strings of 1 to MaxChars characters out of  / a _ 4 1
SpecDecode ==
    Init(FALSE, "api", {<<>>}, {MaxCap}, {<<>>},
         UNION { [1..n -> {47, 97, 95, 52, 49}] : n \in 1..MaxChars })
        /\ [][CallDecodeFileName]_vars

\* extractNewCode at its interface: the argument is [diff, maxLines]
CallExtractNewCode ==
    /\ callResult = NotCalled
    /\ callResult' = <<callArgument.diff, extractNewCode(callArgument.diff, callArgument.maxLines)>>
    /\ UNCHANGED <<callArgument, notifyVars, crawlVars, liveVars, extractVars, storeVars, simVars>>

\* the diffs: up to MaxParts parts of 1, 2, 3 or 11 non-blank lines, neighbours of
\* different kinds and removed before added, as diffLines returns them
Diffs ==
    LET Values == { <<1>>, <<1, 0, 2>>, <<1, 2, 3>>, [i \in 1..(maxLines + 1) |-> i] }
        Parts  == { [added |-> k = "added", removed |-> k = "removed", lines |-> ls,
                     count |-> Len(ls)] : k \in {"added", "removed", "kept"}, ls \in Values }
    IN  { d \in UNION { [1..n -> Parts] : n \in 0..MaxParts } :
            \A i \in 1..(Len(d) - 1) :
                /\ <<d[i].added, d[i].removed>> # <<d[i + 1].added, d[i + 1].removed>>
                /\ ~(d[i].added /\ d[i + 1].removed) }

SpecSections ==
    Init(FALSE, "api", {<<>>}, {MaxCap}, {<<>>}, [diff : Diffs, maxLines : {2, maxLines}])
        /\ [][CallExtractNewCode]_vars

----------------------------------------------------------------------------
(* Change detection: properties *)

\* C1: the first classification of a url reports isNew; a later one with the
\* bytes last observed reports changed = false; a later one with different
\* bytes reports changed = true and isNew = false.
C1_ClassifyContract ==
    lastResult.valid =>
      /\ lastResult.first => lastResult.isNew
      /\ (~lastResult.first /\ lastResult.sameBytes) => ~lastResult.changed
      /\ (~lastResult.first /\ ~lastResult.sameBytes) =>
            (lastResult.changed /\ ~lastResult.isNew)

C1_Witness ==
    /\ lastResult.valid
    /\ ~lastResult.first
    /\ ~lastResult.sameBytes
    /\ lastResult.changed
    /\ ~lastResult.isNew

\* C2: as long as no classification ended in an error, every stored hash is
\* the SHA-256 of the bytes most recently observed for its url (and, while the
\* store was never damaged, every observed url has one), and a classification
\* reports isNew exactly when the store held no record for the url before it.
C2_StoreHoldsLatestHash ==
    ~erred =>
      /\ \A u \in URLs :
            /\ LoadHashes[u] # NoHash =>
                  (lastObs[u] # NoFile /\ LoadHashes[u] = Hash(lastObs[u]))
            /\ (faultsInjected = 0 /\ lastObs[u] # NoFile) => LoadHashes[u] # NoHash
      /\ lastResult.valid => (lastResult.isNew <=> ~lastResult.priorRecord)

C2_Witness ==
    /\ ~erred
    /\ lastResult.valid
    /\ lastResult.changed
    /\ ~lastResult.isNew
    /\ LoadHashes[lastResult.url] = Hash(lastObs[lastResult.url])
    /\ \E u \in URLs \ {lastResult.url} : LoadHashes[u] # NoHash

\* C3: with handlers of several urls in flight at once, no hash update is
\* lost: the store holds the new hash of every url classified new or changed.
C3_NoLostUpdate ==
    \A u \in URLs : classified[u] # NoHash => LoadHashes[u] = classified[u]

C3_Witness ==
    /\ lastResult.valid
    /\ lastResult.changed
    /\ lastResult.others # {}
    /\ \E u \in lastResult.others : classified[u] # NoHash
    /\ LoadHashes[lastResult.url] = lastResult.hash

\* C4: in no state, also after an error or a crash between the writes, does
\* the hash store hold a hash for a url whose raw and formatted content is
\* not on disk.
C4_HashOnlyAfterContent ==
    \A u \in URLs :
        LoadHashes[u] # NoHash =>
          (rawFiles[FileName(u)] # NoFile /\ beautifiedFiles[FileName(u)] # NoFile)

C4_Witness ==
    /\ lastResult.valid
    /\ lastResult.raised
    /\ lastResult.isNew
    /\ rawFiles[FileName(lastResult.url)] = lastObs[lastResult.url]
    /\ LoadHashes[lastResult.url] = NoHash

\* C5: a classification that finds hashes.json unreadable does not fail: it
\* reports isNew and leaves the store rewritten, holding the payload's hash.
C5_UnreadableStoreFailsOpen ==
    [][(lastResult' # lastResult /\ lastResult'.unreadable /\ ~lastResult'.raised) =>
         /\ lastResult'.isNew
         /\ hashFile'.state = "ok"
         /\ hashFile'.map[lastResult'.url] = lastResult'.hash]_vars

C5_Witness ==
    /\ lastResult.valid
    /\ lastResult.unreadable
    /\ ~lastResult.raised
    /\ lastResult.isNew
    /\ hashFile.state = "ok"
    /\ hashFile.map[lastResult.url] = lastResult.hash

\* C6: a payload classified isNew carries no diff, only a preview of at most
\* maxLines lines, also when earlier content of the url is still stored.
C6_NewHasNoDiff ==
    (lastResult.valid /\ lastResult.isNew) =>
      /\ ~lastResult.diffInfo.present
      /\ lastResult.preview # NoPreview => Len(lastResult.preview) <= maxLines

\* C25: a step in which the processing of one file fails (the content capture
\* rejects, or an fs call of the changed branch throws) adds one to
\* results.errors, appends a (url, type, message) record for that url to
\* results.errorDetails, and leaves every other file of the page in flight.
C25_FileFailureRecorded ==
    [][\A u \in URLs :
          (FetchFail(u) \/ \E b \in Contents, f \in Faults : FetchDoneFault(u, b, f))
              => /\ results'.errors = results.errors + 1
                 /\ Len(results'.errorDetails) = Len(results.errorDetails) + 1
                 /\ results'.errorDetails[Len(results'.errorDetails)].url = u
                 /\ inflight' = inflight \ {u}]_vars

\* C26: extractNewCode returns one section per added part of the diff, in order;
\* the section ends with the added hunk, which carries at most maxLines lines and
\* is flagged truncated exactly when the part had more non-blank lines than
\* maxLines; every context part of a section carries at most 2 lines.
C26_SectionsCapped ==
    callResult # NotCalled =>
      LET diff     == callResult[1]
          sections == callResult[2]
          hunks    == SelectSeq(diff, LAMBDA p : p.added)
          filled(p) == Cardinality({ i \in 1..Len(p.lines) : p.lines[i] # 0 })
      IN  /\ Len(sections) = Len(hunks)
          /\ \A k \in 1..Len(sections) :
                 LET section == sections[k]
                     hunk    == section[Len(section)]
                 IN  /\ hunk.type = "added"
                     /\ Len(hunk.lines) <= callArgument.maxLines
                     /\ hunk.truncated <=> filled(hunks[k]) > callArgument.maxLines
                     /\ \A i \in 1..Len(section) :
                            section[i].type = "context" => Len(section[i].lines) <= 2

\* a section with a context part cut to 2 lines and an added hunk cut to maxLines
C26_Witness ==
    /\ callResult # NotCalled
    /\ \E k \in 1..Len(callResult[2]) :
           LET section == callResult[2][k]
           IN  /\ section[Len(section)].truncated
               /\ Len(section[Len(section)].lines) = callArgument.maxLines
               /\ \E i \in 1..Len(section) :
                      section[i].type = "context" /\ section[i].truncated

----------------------------------------------------------------------------
(* Notification batch: properties *)

FlushFinished == lastFlush.outcome \in {"empty", "suppressed", "ok", "429", "status", "throw"}

\* C7: a non-empty batch whose semantic content equals that of the last
\* successfully delivered summary, flushed before summaryMinInterval has
\* passed since that summary's flush, is suppressed without a delivery call.
C7_DuplicateSuppressed ==
    (lastFlush.nonEmpty /\ lastFlush.dup /\ lastFlush.within) =>
      (lastFlush.outcome = "suppressed" /\ ~lastFlush.called)

C7_Witness ==
    /\ lastFlush.nonEmpty
    /\ lastFlush.dup
    /\ lastFlush.within
    /\ lastFlush.outcome = "suppressed"
    /\ now > delivered.at

\* C8: a flush of a non-empty batch before the rate-limit deadline makes no
\* delivery call and keeps the batch's content queued.
C8_RateLimitedFlushRequeues ==
    (lastFlush.nonEmpty /\ lastFlush.limited) =>
      (~lastFlush.called /\ lastFlush.requeued)

\* C9: no event appended while a delivery is in flight is dropped by the
\* flush: it is in the summary sent or still buffered afterwards.
C9_NoEventLost == lastFlush.dropped = 0

\* C10: right after every flush attempt (sent, suppressed, empty, failed) the
\* four batch lists are empty.
C10_BatchClearedAfterFlush == FlushFinished => batchedChanges = EmptyBatch

C10_Witness ==
    /\ lastFlush.outcome = "throw"
    /\ lastFlush.dropped > 0
    /\ batchedChanges = EmptyBatch

\* C11: whatever the delivery call does (ok, 429, other status, exception),
\* neither sendBatchedSummary nor sendNotification throws to its caller.
C11_DeliveryNeverThrows == ~raised

C11_Witness ==
    /\ lastSend.outcome = "throw"
    /\ lastFlush.outcome = "throw"
    /\ livePc = "queued"
    /\ ~raised

\* C12: in live mode a summary delivery that is in flight never keeps the
\* next scan from starting.
C12_StalledDeliveryDoesNotBlock ==
    \A n \in 1..(MaxScans - 1) :
        (livePc = "summary" /\ flight.active /\ scans = n) ~> (scans > n)

\* C27: lastSummarySignature and lastSummaryTime change only in the step in
\* which a delivery is answered ok; and when the flush before failed or was rate
\* limited, a non-empty batch with the semantic content of that flush is not
\* suppressed: the delivery call is made.
C27_SignatureOnlyOnSuccess ==
    /\ [][<<lastSummarySignature, lastSummaryTime>>' # <<lastSummarySignature, lastSummaryTime>>
             => (flight.active /\ lastFlush'.outcome = "ok")]_vars
    /\ []((lastFlush.nonEmpty /\ lastFlush.retry) => lastFlush.called)

\* the same content is flushed again after a delivery answered 429
C27_Witness ==
    /\ lastFlush.nonEmpty
    /\ lastFlush.retry
    /\ lastFlush.called
    /\ rateLimitReset > now
    /\ lastFlush.within

\* C28: a flush is suppressed only if a summary was delivered before and the
\* semantic content of the batch (urls and counts of its items) equals the
\* semantic content of the last delivered summary.
C28_SuppressedOnlyIfSameContent ==
    lastFlush.outcome = "suppressed" => lastFlush.dup

\* C29: in live mode no exception leaves the loop over the target urls, so the
\* loop goes on to the remaining urls, and every url visited whose scan failed
\* has a record in results.errorDetails.
C29_LiveUrlFailureIsolated ==
    (callResult # NotCalled /\ callArgument.liveMode) =>
      /\ ~callResult[3]
      /\ \A i \in 1..callResult[1] :
             callArgument.urls[i] # "ok" =>
                 \E k \in 1..Len(callResult[2].errorDetails) :
                     callResult[2].errorDetails[k].url = i

----------------------------------------------------------------------------
(* Endpoint extraction: properties *)

confidenceScore(e) == confidenceOrder[e.confidence]

CandidatesFor(url) ==
    { k \in 1..Len(lastExtract.candidates) : lastExtract.candidates[k].url = url }

\* C13: the list returned by extractEndpoints holds every url found exactly once;
\* the record returned for a url has the highest confidence among the records
\* the three passes entered for that url, and when a network-call category
\* record (network_call, network_call_resolved, fetchPatterns) is among those
\* of highest confidence, the returned record is of such a category.
C13_DedupKeepsBest ==
    LET found == lastExtract.candidates
        result == lastExtract.result
    IN  /\ \A i, j \in 1..Len(result) : result[i].url = result[j].url => i = j
        /\ \A k \in 1..Len(found) : \E i \in 1..Len(result) : result[i].url = found[k].url
        /\ \A i \in 1..Len(result) :
               /\ \E k \in CandidatesFor(result[i].url) : found[k] = result[i]
               /\ \A k \in CandidatesFor(result[i].url) :
                      /\ confidenceScore(found[k]) <= confidenceScore(result[i])
                      /\ (/\ confidenceScore(found[k]) = confidenceScore(result[i])
                          /\ found[k].category \in preferredCategories)
                         => result[i].category \in preferredCategories

\* a lower-confidence record came first for one url, and a tie at HIGH was
\* settled toward a network-call category for another
C13_Witness ==
    LET found == lastExtract.candidates
        result == lastExtract.result
    IN  /\ \E i \in 1..Len(result) :
               /\ result[i].url = Users
               /\ result[i].confidence = "HIGH"
               /\ found[CHOOSE k \in CandidatesFor(Users) :
                            \A l \in CandidatesFor(Users) : k <= l].confidence = "MEDIUM"
        /\ \E i \in 1..Len(result) :
               /\ result[i].url = ApiA
               /\ result[i].category \in preferredCategories
               /\ LET first == CHOOSE k \in CandidatesFor(ApiA) :
                                   \A l \in CandidatesFor(ApiA) : k <= l
                  IN  /\ found[first].confidence = "HIGH"
                      /\ found[first].category \notin preferredCategories

EndpointSet(endpoints) ==
    { [url |-> endpoints[i].url, confidence |-> endpoints[i].confidence] :
          i \in 1..Len(endpoints) }

\* C20: an extraction of a content returns the same urls with the same
\* confidences as the first extraction of that content did, whatever was
\* extracted in between.
C20_ExtractIdempotent ==
    (lastExtract.valid /\ probeFirst.valid /\ lastExtract.content = probe)
        => EndpointSet(lastExtract.result) = EndpointSet(probeFirst.result)

\* fetch(x) extracted again after a content that declares x was extracted
C20_Witness ==
    /\ probeFirst.again
    /\ probeFirst.othersSince
    /\ lastExtract.content = probe
    /\ \E i \in 1..Len(probe) : probe[i].kind = "callVar"
    /\ \A i \in 1..Len(probe) : probe[i].kind # "decl"
    /\ variables = EmptyVariables

\* C22: every endpoint url returned by an extraction without custom patterns
\* is also returned when custom patterns are supplied, with a confidence that
\* is not lower: supplying a custom pattern never removes an endpoint.
C22_CustomPatternsOnlyAdd ==
    lastExtract.valid =>
        \A i \in 1..Len(lastExtract.plain) :
            \E k \in 1..Len(lastExtract.result) :
                /\ lastExtract.result[k].url = lastExtract.plain[i].url
                /\ confidenceOrder[lastExtract.result[k].confidence]
                       >= confidenceOrder[lastExtract.plain[i].confidence]

\* a custom pattern is passed with a content in which a built-in regex category
\* finds an endpoint
C22_Witness ==
    /\ lastExtract.valid
    /\ lastExtract.custom # <<>>
    /\ \E i \in 1..Len(lastExtract.plain), k \in 1..Len(patterns) :
           lastExtract.plain[i].category = patterns[k]

\* C23: for the content `const a='/api/' + 'users'; fetch(a)` the result holds
\* exactly one record for the url /api/users, and that record has confidence
\* HIGH and method FETCH (the identifier was resolved to /api/users).
C23_ConcatenationResolved ==
    (/\ lastExtract.valid
     /\ lastExtract.content = << [kind |-> "concatFetch", callee |-> "fetch",
                                  arg |-> <<47, 97, 112, 105, 47>>, plus |-> Users] >>)
        => LET hits == { i \in 1..Len(lastExtract.result) :
                            lastExtract.result[i].url = <<47, 97, 112, 105, 47>> \o Users }
           IN  /\ Cardinality(hits) = 1
               /\ \A i \in hits : /\ lastExtract.result[i].confidence = "HIGH"
                                  /\ lastExtract.result[i].method = "FETCH"

\* that content was extracted: the record returned for /api/users is the one of
\* the resolved network call, and the regex pass had found the url before
C23_Witness ==
    /\ lastExtract.valid
    /\ Len(lastExtract.content) = 1
    /\ lastExtract.content[1].kind = "concatFetch"
    /\ \E i \in 1..Len(lastExtract.result) :
           /\ lastExtract.result[i].url = <<47, 97, 112, 105, 47>> \o Users
           /\ lastExtract.result[i].category = "network_call_resolved"
    /\ lastExtract.candidates[1].url = <<47, 97, 112, 105, 47>> \o Users
    /\ lastExtract.candidates[1].category = "dynamicPatterns"

\* C24: an error raised while resolving one candidate does not abort the
\* extraction of the rest of the file: every url that the three passes find in
\* the file without the failing candidate is in the result.
C24_ResolutionErrorIsolated ==
    lastExtract.valid =>
        \A i \in 1..Len(lastExtract.others) :
            \E k \in 1..Len(lastExtract.result) :
                lastExtract.result[k].url = lastExtract.others[i].url

----------------------------------------------------------------------------
(* Endpoint store: properties *)

\* C14: after any sequence of saves every url is stored at most once, and the
\* stored record of a url has the highest confidence of all the variants of
\* that url ever passed to saveEndpoints.
C14_StoreKeepsBestVariant ==
    /\ \A i, j \in 1..Len(allEndpointsFile) :
           allEndpointsFile[i].url = allEndpointsFile[j].url => i = j
    /\ \A i \in 1..Len(allEndpointsFile) : \A u \in 1..Len(StoreUrls) :
           allEndpointsFile[i].url = StoreUrls[u]
               => confidenceOrder[allEndpointsFile[i].confidence] = everSaved[u]

\* C15: after every saveEndpoints call the store holds at most
\* maxEndpointsPerDomain records, whatever the number of new endpoints in the
\* call, and the records removed are the oldest by timestamp.
C15_StoreWithinCap ==
    lastSave.saved =>
        /\ Len(allEndpointsFile) <= maxEndpointsPerDomain
        /\ \A i \in 1..Len(lastSave.before) : \A k \in 1..Len(lastSave.kept) :
               (\A j \in 1..Len(lastSave.kept) : lastSave.kept[j] # lastSave.before[i])
                   => lastSave.before[i].timestamp <= lastSave.kept[k].timestamp

----------------------------------------------------------------------------
(* Similarity clustering: properties *)

Members(c) == { c[k] : k \in 1..Len(c) }

Seeds ==
    { relationships.clusters[k][1] : k \in 1..Len(relationships.clusters) }
        \cup Members(relationships.singletons)

\* the seed of the cluster that file u was put in (u itself for a singleton)
SeedOf(u) ==
    IF \E k \in 1..Len(relationships.clusters) : u \in Members(relationships.clusters[k])
    THEN relationships.clusters[CHOOSE k \in 1..Len(relationships.clusters) :
                                    u \in Members(relationships.clusters[k])][1]
    ELSE u

\* C16: files are visited in key order; a file that no earlier seed is similar
\* to seeds a new cluster, and any other file is in the cluster of the first
\* seed in order whose similarity to it reaches the threshold; similarity to
\* members that are not seeds plays no part.
C16_JoinsFirstSimilarSeed ==
    simPc = "done" =>
        \A u \in 1..Len(fingerprints) :
            LET earlier == { s \in Seeds : s < u /\ Similar(fingerprints[s], fingerprints[u]) }
            IN  IF earlier = {}
                THEN u \in Seeds
                ELSE /\ u \notin Seeds
                     /\ SeedOf(u) \in earlier
                     /\ \A s \in earlier : SeedOf(u) <= s

\* file 2 joined seed 1; file 3 is similar to file 2 but not to the seed
C16_Witness ==
    /\ simPc = "done"
    /\ Len(fingerprints) = 3
    /\ SeedOf(2) = 1
    /\ Similar(fingerprints[2], fingerprints[3])
    /\ ~Similar(fingerprints[1], fingerprints[3])
    /\ 3 \in Members(relationships.singletons)

Occurrences(u) ==
    Cardinality({ k \in 1..Len(relationships.clusters) :
                    u \in Members(relationships.clusters[k]) })
    + Cardinality({ k \in 1..Len(relationships.singletons) : relationships.singletons[k] = u })

SameCluster(a, b) ==
    \E k \in 1..Len(relationships.clusters) :
        a \in Members(relationships.clusters[k]) /\ b \in Members(relationships.clusters[k])

\* C18: two files whose signature sets are equal and whose import/export sets
\* are equal have an overall similarity of at least 0.7, whatever their
\* content hashes, and end in the same cluster.
C18_EqualSetsClusterTogether ==
    simPc = "done" =>
        \A a, b \in 1..Len(fingerprints) :
            (/\ a # b
             /\ fingerprints[a].functionSignatures = fingerprints[b].functionSignatures
             /\ fingerprints[a].importExports = fingerprints[b].importExports)
                => /\ Similar(fingerprints[a], fingerprints[b])
                   /\ SameCluster(a, b)

\* C19: calculateSimilarity gives the same overall score and the same
\* component scores when its two arguments are exchanged.
C19_SimilaritySymmetric ==
    lastCompare.valid =>
        lastCompare.result = calculateSimilarity(lastCompare.second, lastCompare.first)

\* two fingerprints with different signature arrays that share a signature
C19_Witness ==
    /\ lastCompare.valid
    /\ lastCompare.first.functionSignatures # lastCompare.second.functionSignatures
    /\ lastCompare.result.signatures.num > 0
    /\ lastCompare.result.signatures.num < lastCompare.result.signatures.den

\* C30: decodeFileName applied to the name of the file that saveJSFile writes
\* for a url returns that url.
C30_FileNameDecodesToUrl ==
    callResult # NotCalled => callResult = callArgument

----------------------------------------------------------------------------
(* Endpoint candidates: properties *)

\* C21: every candidate string that passes the validity predicate
\* (isValidEndpoint) still passes it after the clean/trim normalization
\* (cleanEndpoint) has been applied to it.
C21_CleanKeepsValid ==
    (callResult # NotCalled /\ isValidEndpoint(callArgument)) => isValidEndpoint(callResult)

====
